---- MODULE Spec2Model ----
(***************************************************************************)
(* Reclamation table, per-entry locking handshake and stub indirection of  *)
(* the marvin object-swapping runtime (runtime/mirror/object-inl.h and the *)
(* niel_reclamation_table.h declarations appended to it).                  *)
(***************************************************************************)
EXTENDS Integers, FiniteSets, Sequences, TLC

(* ---------------------------------------------------------------------- *)
(* Bounds of the model                                                     *)
(* ---------------------------------------------------------------------- *)
\* number of TableEntry slots of the table given to CreateTable
NumEntries == 2
\* number of heap addresses that hold an object
NumObjects == 2
\* largest reference value stored in a field (0 is null)
MaxVal == 1
\* a new handshake starts only while the entry's counter is at most this
MaxCounter == 1
\* references to one object a global reference table holds at most
MaxRefs == 1
MaxPages == 1
\* sizeof(Object) in the units of the model's field offsets: offsets below it address the header
SizeOfObject == 2

(* ---------------------------------------------------------------------- *)
(* Program constants                                                       *)
(* ---------------------------------------------------------------------- *)
OCCUPIED_BIT_OFFSET == 0
KERNEL_LOCK_BIT_OFFSET == 1
RESIDENT_BIT_OFFSET == 2
\* std::atomic<uint8_t> bit_flags_, app_lock_counter_
Uint8Bits == 8

Uint8Mod == 2 ^ Uint8Bits

Threads == {"t1", "t2"}
Entries == 1 .. NumEntries
Objects == 1 .. NumObjects
Vals == 0 .. MaxVal
NoEntry == 0
NoObject == 0

VARIABLES
  bit_flags,        \* [Entries -> 0..255]   TableEntry::bit_flags_
  app_lock_counter, \* [Entries -> 0..255]   TableEntry::app_lock_counter_
  object_address,   \* [Entries -> Objects \cup {NoObject}] TableEntry::object_address_
  live,             \* [Objects -> BOOLEAN]  the address holds an allocated object
  stub_flag,        \* [Objects -> BOOLEAN]  Object::GetStubFlag()
  table_entry,      \* [Objects -> Entries \cup {NoEntry}] Stub::GetTableEntry()
  mem,              \* [Objects -> Vals]     the reference field in the memory at the object's own address
  payload,          \* [Objects -> Vals]     the reference field in the object's payload (swap storage / resident copy)
  pc,               \* [Threads -> label]    position of each application thread
  op,               \* [Threads -> operation the thread executes]
  self,             \* [Threads -> Objects \cup {NoObject}] `this` of the accessor
  cur,              \* [Threads -> Entries \cup {NoEntry}]  entry of the running handshake
  arg,              \* [Threads -> Vals]     new_value of the accessor (the bit offset of a SetBit/ClearBit)
  observed,         \* [Threads -> BOOLEAN]  what the thread's last GetKernelLockBit() returned
  kset,             \* [Threads -> BOOLEAN]  SetKernelLockBit ran on cur after the thread's last read of kernel_lock
  base,             \* [Threads -> 0..255]   app_lock_counter of cur when the thread's handshake began
                    \*                       (old_value while the thread runs a compare-and-swap)
  ret,              \* the last table operation and what it returned
  result,           \* [Threads -> Vals]     the reference a field read of the thread obtained
  no_swap,          \* [Objects -> BOOLEAN]  Object::GetNoSwapFlag()
  is_zygote,        \* BOOLEAN               Runtime::Current()->IsZygote()
  globals,          \* [Objects -> Nat]      references to the object held in JavaVMExt::globals_
  weak_globals,     \* [Objects -> Nat]      references to the object held in JavaVMExt::weak_globals_
  gc,               \* the call of LargeObjectSpace Free in progress
  table,            \* the ReclamationTable handle: [base_address_, num_entries_]
  card,             \* [Objects -> BOOLEAN]  WriteBarrier::ForFieldWrite ran on the object
  field_offset,     \* [Threads -> Nat]      field_offset of the thread's last offset-guarded accessor
  sweep,            \* the call of LargeObjectSpace::FreeList in progress
  num_pages         \* [Entries -> Nat]      TableEntry::num_pages_

vars == << bit_flags, app_lock_counter, object_address, live, stub_flag, table_entry,
           mem, payload, pc, op, self, cur, arg, observed, kset, base, ret,
           result, no_swap, is_zygote, globals, weak_globals, gc, table, card,
           field_offset, sweep, num_pages >>

\* no call of LargeObjectSpace::FreeList is in progress
NoSweep == [pc |-> "idle", space |-> "none", ptrs |-> << >>, i |-> 0, total |-> 0]

\* no call of LargeObjectSpace Free is in progress
NoFree == [pc |-> "idle", space |-> "none", obj |-> NoObject, ptr |-> 0, hooked |-> FALSE]

NoRet == [op |-> "none", e |-> NoEntry, was |-> FALSE, obj |-> NoObject, val |-> 0, arg |-> 0]

(* ---------------------------------------------------------------------- *)
(* TableEntry: bit flags                                                   *)
(* ---------------------------------------------------------------------- *)
\* (bit_flags_.load() >> offset) & 0x1
GetBit(flags, offset) == ((flags \div (2 ^ offset)) % 2) = 1

\* a plain store of the mask in place of the fetch_or: the other bits are overwritten
SetBitStoresMask(flags, offset) == 2 ^ offset

\* fetch_or with the offset itself as the mask: bit_flags_.fetch_or(offset)
SetBitNoShift(flags, offset) ==
  IF offset = 0 \/ GetBit(flags, offset - 1) THEN flags ELSE (flags + 2 ^ (offset - 1)) % Uint8Mod

\* bit_flags_.fetch_or(1 << offset)
SetBit(flags, offset) == IF GetBit(flags, offset) THEN flags ELSE (flags + 2 ^ offset) % Uint8Mod

\* fetch_and with the mask not inverted: every bit but the addressed one is cleared
ClearBitMaskNotInverted(flags, offset) == IF GetBit(flags, offset) THEN 2 ^ offset ELSE 0

\* fetch_and with the mask of the neighbouring bit
ClearBitWrongOffset(flags, offset) ==
  IF GetBit(flags, offset + 1) THEN flags - 2 ^ (offset + 1) ELSE flags

\* a plain store of zero in place of the fetch_and: every flag is cleared
ClearBitStoresZero(flags, offset) == 0

\* bit_flags_.fetch_and(~(1 << offset))
ClearBit(flags, offset) == IF GetBit(flags, offset) THEN flags - 2 ^ offset ELSE flags

GetOccupiedBit(e) == GetBit(bit_flags[e], OCCUPIED_BIT_OFFSET)
GetKernelLockBit(e) == GetBit(bit_flags[e], KERNEL_LOCK_BIT_OFFSET)
GetResidentBit(e) == GetBit(bit_flags[e], RESIDENT_BIT_OFFSET)

\* app_lock_counter_++ on a std::atomic<uint8_t>
IncrAppLockCounter(c) == (c + 1) % Uint8Mod

\* a balanced unlock: the counter goes down by the two increments of the lock
DecrAppLockCounterTwice(c) == (c + Uint8Mod - 2) % Uint8Mod

\* app_lock_counter_-- on a std::atomic<uint8_t>
DecrAppLockCounter(c) == (c + Uint8Mod - 1) % Uint8Mod

\* a reset that stores nothing
ZeroAppLockCounterSkipped(c) == c

\* app_lock_counter_ = 0
ZeroAppLockCounter(c) == 0

\* an inverted loop condition: the spin waits while kernel_lock is clear
SpinAgainInverted(read) == ~read

\* a missing wait: the loop is left on the first read, whatever it returned
SpinAgainNever(read) == FALSE

\* the condition of both loops of LockFromAppThread, on the value GetKernelLockBit()
\* returned: while (GetKernelLockBit()) continue;
SpinAgain(read) == read

(* ---------------------------------------------------------------------- *)
(* Positions of an application thread                                      *)
(* ---------------------------------------------------------------------- *)
\* between the return of LockFromAppThread and the call of UnlockFromAppThread
PostLock == {"locked", "set_resident", "set_swapin", "set_forward", "set_populate", "set_unlock",
             "pre_resident", "pre_swapin", "pre_forward", "pre_populate", "pre_unlock"}
\* inside LockFromAppThread
InLock == {"spin1", "incr1", "spin2", "incr2"}

\* the next step of the thread reads or writes a reference field
FieldAccess == {"set_direct", "set_forward", "set_populate", "cas_direct", "cmpxchg_direct",
                "xchg_direct", "pre_direct", "pre_forward", "pre_populate"}

\* the operations that store a reference through SetFieldObjectWithoutWriteBarrier
SetOps == {"set", "rt_set", "sfo"}
\* the operations that begin with the swap preamble: reference reads and the field visitor
PreambleOps == {"get", "visit", "rt_get", "put"}

Idle(t) == pc[t] = "idle"
\* the thread is inside the handshake of entry e (LockFromAppThread entered, UnlockFromAppThread not yet run)
MidHandshake(t, e) == cur[t] = e /\ pc[t] \in InLock \cup PostLock
\* the thread executes an accessor on object o
Accessing(t, o) == self[t] = o /\ ~Idle(t)

Finish(t) ==
  /\ pc' = [pc EXCEPT ![t] = "idle"]
  /\ op' = [op EXCEPT ![t] = "none"]
  /\ self' = [self EXCEPT ![t] = NoObject]
  /\ cur' = [cur EXCEPT ![t] = NoEntry]
  /\ arg' = [arg EXCEPT ![t] = 0]
  /\ observed' = [observed EXCEPT ![t] = FALSE]
  /\ kset' = [kset EXCEPT ![t] = FALSE]
  /\ base' = [base EXCEPT ![t] = 0]

\* the store returns; a caller that runs SetField(o, x); GetField(o) goes on to the read
\* with x kept in its frame, SetFieldObject goes on to its test of new_value
SetReturn(t) ==
  IF op[t] = "rt_set"
    THEN /\ pc' = [pc EXCEPT ![t] = "pre_check"]
         /\ op' = [op EXCEPT ![t] = "rt_get"]
         /\ cur' = [cur EXCEPT ![t] = NoEntry]
         /\ observed' = [observed EXCEPT ![t] = FALSE]
         /\ kset' = [kset EXCEPT ![t] = FALSE]
         /\ base' = [base EXCEPT ![t] = 0]
         /\ UNCHANGED << self, arg >>
    ELSE IF op[t] = "sfo"
    THEN /\ pc' = [pc EXCEPT ![t] = "sfo_check"]
         /\ cur' = [cur EXCEPT ![t] = NoEntry]
         /\ observed' = [observed EXCEPT ![t] = FALSE]
         /\ kset' = [kset EXCEPT ![t] = FALSE]
         /\ base' = [base EXCEPT ![t] = 0]
         /\ UNCHANGED << op, self, arg >>
    ELSE Finish(t)

(* ---------------------------------------------------------------------- *)
(* TableEntry::LockFromAppThread / UnlockFromAppThread                     *)
(* ---------------------------------------------------------------------- *)
\* one evaluation of the condition of a spin loop: a read of kernel_lock
SpinRead(t, here, next) ==
  /\ pc[t] = here
  /\ observed' = [observed EXCEPT ![t] = GetKernelLockBit(cur[t])]
  /\ kset' = [kset EXCEPT ![t] = FALSE]
  /\ pc' = [pc EXCEPT ![t] = IF SpinAgain(GetKernelLockBit(cur[t])) THEN here ELSE next]
  /\ ret' = NoRet
  /\ UNCHANGED << bit_flags, app_lock_counter, object_address, live, stub_flag, table_entry,
                  mem, payload, op, self, cur, arg, base,
                  result, no_swap, is_zygote, globals, weak_globals, gc, table, card,
                  field_offset, sweep, num_pages >>

\* one IncrAppLockCounter() of LockFromAppThread
LockIncr(t, here, next) ==
  /\ pc[t] = here
  /\ app_lock_counter' = [app_lock_counter EXCEPT ![cur[t]] = IncrAppLockCounter(@)]
  /\ pc' = [pc EXCEPT ![t] = next]
  /\ ret' = NoRet
  /\ UNCHANGED << bit_flags, object_address, live, stub_flag, table_entry, mem, payload, op,
                  self, cur, arg, observed, kset, base,
                  result, no_swap, is_zygote, globals, weak_globals, gc, table, card,
                  field_offset, sweep, num_pages >>

\* a first loop that also waits until no other thread holds the handshake
LockFromAppThread_Spin1WaitsOnCounter(t) ==
  /\ pc[t] = "spin1"
  /\ observed' = [observed EXCEPT ![t] = GetKernelLockBit(cur[t])]
  /\ kset' = [kset EXCEPT ![t] = FALSE]
  /\ pc' = [pc EXCEPT ![t] =
       IF SpinAgain(GetKernelLockBit(cur[t])) \/ app_lock_counter[cur[t]] # 0
         THEN "spin1" ELSE "incr1"]
  /\ ret' = NoRet
  /\ UNCHANGED << bit_flags, app_lock_counter, object_address, live, stub_flag, table_entry,
                  mem, payload, op, self, cur, arg, base,
                  result, no_swap, is_zygote, globals, weak_globals, gc, table, card,
                  field_offset, sweep, num_pages >>

LockFromAppThread_Spin1(t) == SpinRead(t, "spin1", "incr1")
LockFromAppThread_Incr1(t) == LockIncr(t, "incr1", "spin2")
\* LockFromAppThread without its second loop
LockFromAppThread_NoSecondSpin(t) ==
  /\ pc[t] = "spin2"
  /\ pc' = [pc EXCEPT ![t] = "incr2"]
  /\ ret' = NoRet
  /\ UNCHANGED << bit_flags, app_lock_counter, object_address, live, stub_flag, table_entry,
                  mem, payload, op, self, cur, arg, observed, kset, base,
                  result, no_swap, is_zygote, globals, weak_globals, gc, table, card,
                  field_offset, sweep, num_pages >>

\* a second loop that takes the first increment back and starts over when it finds
\* kernel_lock set
LockFromAppThread_Spin2RollsBack(t) ==
  /\ pc[t] = "spin2"
  /\ observed' = [observed EXCEPT ![t] = GetKernelLockBit(cur[t])]
  /\ kset' = [kset EXCEPT ![t] = FALSE]
  /\ IF SpinAgain(GetKernelLockBit(cur[t]))
       THEN /\ app_lock_counter' = [app_lock_counter EXCEPT ![cur[t]] = DecrAppLockCounter(@)]
            /\ pc' = [pc EXCEPT ![t] = "spin1"]
       ELSE /\ UNCHANGED app_lock_counter
            /\ pc' = [pc EXCEPT ![t] = "incr2"]
  /\ ret' = NoRet
  /\ UNCHANGED << bit_flags, object_address, live, stub_flag, table_entry,
                  mem, payload, op, self, cur, arg, base,
                  result, no_swap, is_zygote, globals, weak_globals, gc, table, card,
                  field_offset, sweep, num_pages >>

\* the second loop of LockFromAppThread
LockFromAppThread_Spin2(t) == SpinRead(t, "spin2", "incr2")
LockFromAppThread_Incr2(t) ==
  LockIncr(t, "incr2", IF op[t] \in SetOps THEN "set_resident"
                       ELSE IF op[t] \in PreambleOps THEN "pre_resident" ELSE "locked")

\* an application thread calls LockFromAppThread on an occupied entry
BeginLock(t, e) ==
  /\ Idle(t)
  /\ GetOccupiedBit(e)
  /\ pc' = [pc EXCEPT ![t] = "spin1"]
  /\ op' = [op EXCEPT ![t] = "lock"]
  /\ cur' = [cur EXCEPT ![t] = e]
  /\ base' = [base EXCEPT ![t] = app_lock_counter[e]]
  /\ ret' = NoRet
  /\ UNCHANGED << bit_flags, app_lock_counter, object_address, live, stub_flag, table_entry,
                  mem, payload, self, arg, observed, kset,
                  result, no_swap, is_zygote, globals, weak_globals, gc, table, card,
                  field_offset, sweep, num_pages >>

\* an unlock that takes one count from every entry of the table
UnlockFromAppThreadEveryEntry(t) ==
  /\ pc[t] = "locked"
  /\ app_lock_counter' = [e \in Entries |-> DecrAppLockCounter(app_lock_counter[e])]
  /\ pc' = [pc EXCEPT ![t] = "unlocked"]
  /\ ret' = NoRet
  /\ UNCHANGED << bit_flags, object_address, live, stub_flag, table_entry,
                  mem, payload, op, self, cur, arg, observed, kset, base,
                  result, no_swap, is_zygote, globals, weak_globals, gc, table, card,
                  field_offset, sweep, num_pages >>

\* UnlockFromAppThread: DecrAppLockCounter()
UnlockFromAppThread(t) ==
  /\ pc[t] = "locked"
  /\ app_lock_counter' = [app_lock_counter EXCEPT ![cur[t]] = DecrAppLockCounter(@)]
  /\ pc' = [pc EXCEPT ![t] = "unlocked"]
  /\ ret' = NoRet
  /\ UNCHANGED << bit_flags, object_address, live, stub_flag, table_entry, mem, payload, op,
                  self, cur, arg, observed, kset, base,
                  result, no_swap, is_zygote, globals, weak_globals, gc, table, card,
                  field_offset, sweep, num_pages >>

\* the caller of Lock/Unlock goes on
EndLock(t) ==
  /\ pc[t] = "unlocked"
  /\ Finish(t)
  /\ ret' = NoRet
  /\ UNCHANGED << bit_flags, app_lock_counter, object_address, live, stub_flag, table_entry,
                  mem, payload,
                  result, no_swap, is_zygote, globals, weak_globals, gc, table, card,
                  field_offset, sweep, num_pages >>

(* ---------------------------------------------------------------------- *)
(* TableEntry: Set/Clear of the occupied, kernel_lock and resident bits     *)
(* ---------------------------------------------------------------------- *)
\* the offsets of the three flags in bit_flags_
BitOffsets == {OCCUPIED_BIT_OFFSET, KERNEL_LOCK_BIT_OFFSET, RESIDENT_BIT_OFFSET}

\* a thread calls SetOccupiedBit / SetKernelLockBit / SetResidentBit (set) or
\* ClearOccupiedBit / ClearKernelLockBit / ClearResidentBit on entry e
BeginBitOp(t, e, offset, set) ==
  /\ Idle(t)
  /\ pc' = [pc EXCEPT ![t] = IF set THEN "fetch_or" ELSE "fetch_and"]
  /\ op' = [op EXCEPT ![t] = IF set THEN "SetBit" ELSE "ClearBit"]
  /\ cur' = [cur EXCEPT ![t] = e]
  /\ arg' = [arg EXCEPT ![t] = offset]
  /\ ret' = NoRet
  /\ UNCHANGED << bit_flags, app_lock_counter, object_address, live, stub_flag, table_entry,
                  mem, payload, self, observed, kset, base,
                  result, no_swap, is_zygote, globals, weak_globals, gc, table, card,
                  field_offset, sweep, num_pages >>

\* SetBit(offset): bit_flags_.fetch_or(1 << offset), one atomic read-modify-write
FetchOr(t) ==
  /\ pc[t] = "fetch_or"
  /\ bit_flags' = [bit_flags EXCEPT ![cur[t]] = SetBit(@, arg[t])]
  /\ ret' = [op |-> "SetBit", e |-> cur[t], was |-> GetBit(bit_flags[cur[t]], arg[t]),
             obj |-> NoObject, val |-> bit_flags[cur[t]], arg |-> arg[t]]
  /\ Finish(t)
  /\ UNCHANGED << app_lock_counter, object_address, live, stub_flag, table_entry, mem,
                  payload,
                  result, no_swap, is_zygote, globals, weak_globals, gc, table, card,
                  field_offset, sweep, num_pages >>

\* ClearBit(offset): bit_flags_.fetch_and(~(1 << offset)), one atomic read-modify-write
FetchAnd(t) ==
  /\ pc[t] = "fetch_and"
  /\ bit_flags' = [bit_flags EXCEPT ![cur[t]] = ClearBit(@, arg[t])]
  /\ ret' = [op |-> "ClearBit", e |-> cur[t], was |-> GetBit(bit_flags[cur[t]], arg[t]),
             obj |-> NoObject, val |-> bit_flags[cur[t]], arg |-> arg[t]]
  /\ Finish(t)
  /\ UNCHANGED << app_lock_counter, object_address, live, stub_flag, table_entry, mem,
                  payload,
                  result, no_swap, is_zygote, globals, weak_globals, gc, table, card,
                  field_offset, sweep, num_pages >>

(* ---------------------------------------------------------------------- *)
(* The kernel swap-in actor                                                *)
(* ---------------------------------------------------------------------- *)
\* the kernel path enters its critical section on an entry bound to an object
KernelSetLock(e) ==
  /\ GetOccupiedBit(e)
  /\ ~GetKernelLockBit(e)
  /\ bit_flags' = [bit_flags EXCEPT ![e] = SetBit(@, KERNEL_LOCK_BIT_OFFSET)]
  /\ kset' = [t \in Threads |-> kset[t] \/ MidHandshake(t, e)]
  /\ ret' = NoRet
  /\ UNCHANGED << app_lock_counter, object_address, live, stub_flag, table_entry, mem,
                  payload, pc, op, self, cur, arg, observed, base,
                  result, no_swap, is_zygote, globals, weak_globals, gc, table, card,
                  field_offset, sweep, num_pages >>

\* the owner records the size of the payload: SetNumPages(num)
SetNumPages(e, num) ==
  /\ GetOccupiedBit(e)
  /\ num_pages' = [num_pages EXCEPT ![e] = num]
  /\ ret' = NoRet
  /\ UNCHANGED << bit_flags, app_lock_counter, object_address, live, stub_flag, table_entry,
                  mem, payload, pc, op, self, cur, arg, observed, kset, base,
                  result, no_swap, is_zygote, globals, weak_globals, gc, table, card,
                  field_offset, sweep >>

\* the kernel path leaves its critical section
KernelClearLock(e) ==
  /\ GetKernelLockBit(e)
  /\ bit_flags' = [bit_flags EXCEPT ![e] = ClearBit(@, KERNEL_LOCK_BIT_OFFSET)]
  /\ ret' = NoRet
  /\ UNCHANGED << app_lock_counter, object_address, live, stub_flag, table_entry, mem,
                  payload, pc, op, self, cur, arg, observed, kset, base,
                  result, no_swap, is_zygote, globals, weak_globals, gc, table, card,
                  field_offset, sweep, num_pages >>

(* ---------------------------------------------------------------------- *)
(* ReclamationTable                                                        *)
(* ---------------------------------------------------------------------- *)
\* Begin(): base_address_, the first slot
Begin == 1

\* an end pointer that stops at the last slot instead of one past it
EndAtLastSlot == Begin + NumEntries - 1

\* End(): base_address_ + num_entries_, one past the last slot
End == Begin + NumEntries

\* ReclamationTable(): null base address, zero entries
DefaultTable == [base_address_ |-> NoEntry, num_entries_ |-> 0]

\* ReclamationTable(base_address, num_entries): the handle of an allocated table
AllocatedTable(n) == [base_address_ |-> Begin, num_entries_ |-> n]

\* a validity test that answers true for every handle
IsValidAlways(tbl) == TRUE

\* IsValid(): the handle has backing storage
IsValid(tbl) == tbl.base_address_ # NoEntry

\* a range of slots that takes End() for the last slot
TableSlotsThroughEnd(tbl) ==
  {e \in Entries : IsValid(tbl) /\ tbl.base_address_ <= e
                                /\ e <= tbl.base_address_ + tbl.num_entries_}

\* the slots of the handle: base_address_ .. base_address_ + num_entries_ - 1
TableSlots(tbl) ==
  {e \in Entries : IsValid(tbl) /\ tbl.base_address_ <= e
                                /\ e < tbl.base_address_ + tbl.num_entries_}

\* CreateTable(numEntries): the backing allocation succeeds or fails; either way the
\* call returns a handle, the default-constructed one when the allocation failed
CreateTable(n, allocated) ==
  /\ ~IsValid(table)
  /\ table' = IF allocated THEN AllocatedTable(n) ELSE DefaultTable
  /\ ret' = [op |-> "CreateTable", e |-> NoEntry, was |-> allocated, obj |-> NoObject,
             val |-> 0, arg |-> n]
  /\ UNCHANGED << bit_flags, app_lock_counter, object_address, live, stub_flag, table_entry,
                  mem, payload, pc, op, self, cur, arg, observed, kset, base,
                  result, no_swap, is_zygote, globals, weak_globals, gc, card,
                  field_offset, sweep, num_pages >>

\* a slot CreateEntry may hand out: any slot of Begin()..End() that is not occupied
FreeSlots == {e \in Entries : ~GetOccupiedBit(e)}

\* the slot holds state a later owner could see
Residual(e) == GetResidentBit(e) \/ GetKernelLockBit(e) \/ app_lock_counter[e] # 0

\* CreateEntry() returning slot e: free -> occupied, resident, kernel_lock and counter reset
CreateEntry(e) ==
  /\ e \in FreeSlots
  /\ bit_flags' = [bit_flags EXCEPT ![e] =
       SetBit(ClearBit(ClearBit(@, KERNEL_LOCK_BIT_OFFSET), RESIDENT_BIT_OFFSET),
              OCCUPIED_BIT_OFFSET)]
  /\ app_lock_counter' = [app_lock_counter EXCEPT ![e] = ZeroAppLockCounter(@)]
  /\ ret' = [op |-> "CreateEntry", e |-> e, was |-> object_address[e] # NoObject,
             obj |-> NoObject, val |-> 0, arg |-> 0]

\* FreeEntry(entry): the slot goes back to the pool, all flags and the counter cleared
FreeEntry(e) ==
  /\ bit_flags' = [bit_flags EXCEPT ![e] =
       ClearBit(ClearBit(ClearBit(@, OCCUPIED_BIT_OFFSET), KERNEL_LOCK_BIT_OFFSET),
                RESIDENT_BIT_OFFSET)]
  /\ app_lock_counter' = [app_lock_counter EXCEPT ![e] = ZeroAppLockCounter(@)]
  /\ ret' = [op |-> "FreeEntry", e |-> e, was |-> Residual(e), obj |-> NoObject, val |-> 0, arg |-> 0]

\* a hook that forgets the stub but leaves its slot occupied
GcRecordFreeKeepsEntry(o) ==
  /\ UNCHANGED << bit_flags, app_lock_counter >>
  /\ ret' = NoRet
  /\ stub_flag' = [stub_flag EXCEPT ![o] = FALSE]
  /\ table_entry' = [table_entry EXCEPT ![o] = NoEntry]

\* the free-notification hook: the bookkeeping of the address is invalidated
GcRecordFree(o) ==
  /\ IF stub_flag[o]
       THEN FreeEntry(table_entry[o])
       ELSE /\ UNCHANGED << bit_flags, app_lock_counter >>
            /\ ret' = NoRet
  /\ stub_flag' = [stub_flag EXCEPT ![o] = FALSE]
  /\ table_entry' = [table_entry EXCEPT ![o] = NoEntry]

\* the single external owner selects object o for eviction: CreateEntry() and the
\* stub overlay of the object's address
SelectForEviction(o, e) ==
  /\ live[o] /\ ~stub_flag[o]
  /\ ~no_swap[o]
  /\ \A t \in Threads : ~Accessing(t, o)
  /\ CreateEntry(e)
  /\ stub_flag' = [stub_flag EXCEPT ![o] = TRUE]
  /\ table_entry' = [table_entry EXCEPT ![o] = e]
  /\ payload' = [payload EXCEPT ![o] = mem[o]]
  /\ UNCHANGED << object_address, live, mem, pc, op, self, cur, arg, observed, kset, base,
                  result, no_swap, is_zygote, globals, weak_globals, gc, table, card,
                  field_offset, sweep, num_pages >>

\* FreeListSpace::Free / LargeObjectMapSpace::Free of object o: the hook first, then the
\* memory is released for reuse
Free(o) ==
  /\ live[o]
  /\ \A t \in Threads : ~Accessing(t, o) /\ (stub_flag[o] => cur[t] # table_entry[o])
  /\ GcRecordFree(o)
  /\ live' = [live EXCEPT ![o] = FALSE]
  /\ UNCHANGED << object_address, mem, payload, pc, op, self, cur, arg, observed, kset,
                  base,
                  result, no_swap, is_zygote, globals, weak_globals, gc, table, card,
                  field_offset, sweep, num_pages >>

\* the two large object spaces
LargeObjectSpaces == {"LargeObjectMapSpace", "FreeListSpace"}

\* the red zone the memory tool space puts before and after an object, in pages
kMemoryToolRedZoneBytes == 1

\* the large object spaces and the memory tool's wrapper of the map space
LargeObjectSpaceVariants == LargeObjectSpaces \cup {"MemoryToolLargeObjectMapSpace"}

\* the address of object o, as its accessors and the callers of Free see it: mappings
\* of one page with room for a red zone on both sides
AddressOf(o) == o * (1 + 2 * kMemoryToolRedZoneBytes)

\* the object whose address is a, if there is one
ObjectAt(a) == IF \E o \in Objects : AddressOf(o) = a
                 THEN CHOOSE o \in Objects : AddressOf(o) = a
                 ELSE NoObject

\* MemoryToolLargeObjectMapSpace::ObjectWithRedzone
ObjectWithRedzone(a) == a - kMemoryToolRedZoneBytes

\* the pointer the Free of space sp passes to the free-notification hook, called with
\* the object at address a: MemoryToolLargeObjectMapSpace::Free forwards
\* ObjectWithRedzone(obj) to LargeObjectMapSpace::Free, whose first statement is the hook
FreePointer(sp, a) ==
  IF sp = "MemoryToolLargeObjectMapSpace" THEN ObjectWithRedzone(a) ELSE a

\* the collector calls Free(self, obj) of the space sp that holds object o
FreeCall(o, sp) ==
  /\ gc.pc = "idle"
  /\ live[o]
  /\ \A t \in Threads : ~Accessing(t, o) /\ (stub_flag[o] => cur[t] # table_entry[o])
  /\ gc' = [pc |-> "hook", space |-> sp, obj |-> o, ptr |-> FreePointer(sp, AddressOf(o)),
            hooked |-> FALSE]
  /\ ret' = NoRet
  /\ UNCHANGED << bit_flags, app_lock_counter, object_address, live, stub_flag, table_entry,
                  mem, payload, pc, op, self, cur, arg, observed, kset, base,
                  result, no_swap, is_zygote, globals, weak_globals, table, card,
                  field_offset, sweep, num_pages >>

\* a Free that goes on to release the memory without calling the hook
FreeNotifySkipped ==
  /\ gc.pc = "hook"
  /\ gc' = [gc EXCEPT !.pc = "release"]
  /\ ret' = NoRet
  /\ UNCHANGED << bit_flags, app_lock_counter, object_address, live, stub_flag, table_entry,
                  mem, payload, pc, op, self, cur, arg, observed, kset, base,
                  result, no_swap, is_zygote, globals, weak_globals, table, card,
                  field_offset, sweep, num_pages >>

\* the first statement of both Free functions: niel::swap::GcRecordFree(self, ptr), which
\* acts on the bookkeeping of the object at the address it is given
FreeNotify ==
  /\ gc.pc = "hook"
  /\ IF ObjectAt(gc.ptr) # NoObject
       THEN GcRecordFree(ObjectAt(gc.ptr))
       ELSE /\ ret' = NoRet
            /\ UNCHANGED << bit_flags, app_lock_counter, stub_flag, table_entry >>
  /\ gc' = [gc EXCEPT !.pc = "release", !.hooked = TRUE]
  /\ UNCHANGED << object_address, live, mem, payload, pc, op, self, cur, arg, observed, kset,
                  base, result, no_swap, is_zygote, globals, weak_globals, table, card,
                  field_offset, sweep, num_pages >>

\* the rest of Free: large_objects_.erase(it) in the map space, the block marked free and
\* coalesced in the free list space; the address can be handed out again
FreeRelease ==
  /\ gc.pc = "release"
  /\ live' = [live EXCEPT ![gc.obj] = FALSE]
  /\ gc' = NoFree
  /\ ret' = NoRet
  /\ UNCHANGED << bit_flags, app_lock_counter, object_address, stub_flag, table_entry,
                  mem, payload, pc, op, self, cur, arg, observed, kset, base,
                  result, no_swap, is_zygote, globals, weak_globals, table, card,
                  field_offset, sweep, num_pages >>

(* ---------------------------------------------------------------------- *)
(* LargeObjectSpace::FreeList, called by LargeObjectSpace::SweepCallback    *)
(* ---------------------------------------------------------------------- *)
\* what Free returns for the object at address o: the size of its allocation
AllocationSize(o) == o

\* the pointer arrays a sweep hands to FreeList: distinct objects, none to NumObjects of them
PointerLists ==
  {s \in UNION {[1 .. n -> Objects] : n \in 0 .. NumObjects} :
     \A i \in DOMAIN s, j \in DOMAIN s : i # j => s[i] # s[j]}

RECURSIVE SumOfSizes(_)
\* the sum of the allocation sizes of the objects of a pointer array
SumOfSizes(s) == IF s = << >> THEN 0 ELSE AllocationSize(Head(s)) + SumOfSizes(Tail(s))

\* SweepCallback(num_ptrs, ptrs, arg) calls space->FreeList(self, num_ptrs, ptrs):
\* size_t total = 0; i = 0
BeginFreeList(ptrs, sp) ==
  /\ sweep.pc = "idle"
  /\ gc.pc = "idle"
  /\ \A i \in DOMAIN ptrs : live[ptrs[i]]
  /\ sweep' = [pc |-> "loop", space |-> sp, ptrs |-> ptrs, i |-> 1, total |-> 0]
  /\ ret' = NoRet
  /\ UNCHANGED << bit_flags, app_lock_counter, object_address, live, stub_flag, table_entry,
                  mem, payload, pc, op, self, cur, arg, observed, kset, base,
                  result, no_swap, is_zygote, globals, weak_globals, gc, table, card,
                  field_offset, num_pages >>

\* i < num_ptrs: the call Free(self, ptrs[i]) begins
FreeListCall ==
  /\ sweep.pc = "loop"
  /\ sweep.i <= Len(sweep.ptrs)
  /\ gc' = [pc |-> "hook", space |-> sweep.space, obj |-> sweep.ptrs[sweep.i],
            ptr |-> FreePointer(sweep.space, AddressOf(sweep.ptrs[sweep.i])), hooked |-> FALSE]
  /\ sweep' = [sweep EXCEPT !.pc = "in_free"]
  /\ ret' = NoRet
  /\ UNCHANGED << bit_flags, app_lock_counter, object_address, live, stub_flag, table_entry,
                  mem, payload, pc, op, self, cur, arg, observed, kset, base,
                  result, no_swap, is_zygote, globals, weak_globals,  table, card,
                  field_offset, num_pages >>

\* a loop that passes over the pointer after the one it freed
FreeListAddStepsTwo ==
  /\ sweep.pc = "in_free"
  /\ gc.pc = "idle"
  /\ sweep' = [sweep EXCEPT !.pc = "loop", !.i = @ + 2,
                            !.total = @ + AllocationSize(sweep.ptrs[sweep.i])]
  /\ ret' = NoRet
  /\ UNCHANGED << bit_flags, app_lock_counter, object_address, live, stub_flag, table_entry,
                  mem, payload, pc, op, self, cur, arg, observed, kset, base,
                  result, no_swap, is_zygote, globals, weak_globals, gc, table, card,
                  field_offset, num_pages >>

\* total += Free(self, ptrs[i]); ++i
FreeListAdd ==
  /\ sweep.pc = "in_free"
  /\ gc.pc = "idle"
  /\ sweep' = [sweep EXCEPT !.pc = "loop", !.i = @ + 1,
                            !.total = @ + AllocationSize(sweep.ptrs[sweep.i])]
  /\ ret' = NoRet
  /\ UNCHANGED << bit_flags, app_lock_counter, object_address, live, stub_flag, table_entry,
                  mem, payload, pc, op, self, cur, arg, observed, kset, base,
                  result, no_swap, is_zygote, globals, weak_globals, gc, table, card,
                  field_offset, num_pages >>

\* i == num_ptrs: return total
FreeListReturn ==
  /\ sweep.pc = "loop"
  /\ sweep.i > Len(sweep.ptrs)
  /\ sweep' = [sweep EXCEPT !.pc = "returned"]
  /\ ret' = NoRet
  /\ UNCHANGED << bit_flags, app_lock_counter, object_address, live, stub_flag, table_entry,
                  mem, payload, pc, op, self, cur, arg, observed, kset, base,
                  result, no_swap, is_zygote, globals, weak_globals, gc, table, card,
                  field_offset, num_pages >>

\* SweepCallback: context->freed.objects += num_ptrs; context->freed.bytes += the total
SweepCallbackReturn ==
  /\ sweep.pc = "returned"
  /\ sweep' = NoSweep
  /\ ret' = [op |-> "SweepCallback", e |-> NoEntry, was |-> sweep.ptrs # << >>,
             obj |-> NoObject, val |-> sweep.total, arg |-> Len(sweep.ptrs)]
  /\ UNCHANGED << bit_flags, app_lock_counter, object_address, live, stub_flag, table_entry,
                  mem, payload, pc, op, self, cur, arg, observed, kset, base,
                  result, no_swap, is_zygote, globals, weak_globals, gc, table, card,
                  field_offset, num_pages >>

\* the steps of a bulk free
FreeListStep ==
  \/ FreeListCall
  \/ FreeNotify
  \/ FreeRelease
  \/ FreeListAdd
  \/ FreeListReturn
  \/ SweepCallbackReturn

\* a flag setter that stores nothing
SetNoSwapFlagSkipped(flag) == flag

\* obj->SetNoSwapFlag(), on the flag of the object
SetNoSwapFlag(flag) == TRUE

\* the space hands the address out for a new object: fresh, zeroed memory
AllocAt(o) ==
  /\ ~live[o]
  /\ live' = [live EXCEPT ![o] = TRUE]
  /\ mem' = [mem EXCEPT ![o] = 0]
  /\ UNCHANGED << bit_flags, app_lock_counter, object_address, stub_flag, table_entry,
                  payload, pc, op, self, cur, arg, observed, kset, base,
                  result, is_zygote, globals, weak_globals, gc, table, card,
                  field_offset, sweep, num_pages >>

\* the allocator hands the address out again for a new object
Alloc(o) ==
  /\ AllocAt(o)
  /\ no_swap' = [no_swap EXCEPT ![o] = FALSE]
  /\ ret' = NoRet

\* the large object path of Heap::AllocObjectWithAllocator returning object o:
\* if (Runtime::Current()->IsZygote()) obj->SetNoSwapFlag(); return obj
AllocObjectWithAllocator(o) ==
  /\ AllocAt(o)
  /\ no_swap' = [no_swap EXCEPT ![o] = IF is_zygote THEN SetNoSwapFlag(FALSE) ELSE FALSE]
  /\ ret' = [op |-> "AllocObjectWithAllocator", e |-> NoEntry, was |-> is_zygote,
             obj |-> o, val |-> 0, arg |-> 0]

\* the zygote forks: the runtime of the child is no zygote
ZygoteFork ==
  /\ is_zygote
  /\ is_zygote' = FALSE
  /\ ret' = NoRet
  /\ UNCHANGED << bit_flags, app_lock_counter, object_address, live, stub_flag, table_entry,
                  mem, payload, pc, op, self, cur, arg, observed, kset, base,
                  result, no_swap, globals, weak_globals, gc, table, card,
                  field_offset, sweep, num_pages >>

(* ---------------------------------------------------------------------- *)
(* JavaVMExt::AddGlobalRef / JavaVMExt::AddWeakGlobalRef                   *)
(* ---------------------------------------------------------------------- *)
GlobalRefOps == {"AddGlobalRef", "AddWeakGlobalRef"}

\* a thread calls AddGlobalRef(self, obj) or AddWeakGlobalRef(self, obj); obj may be null
BeginAddGlobalRef(t, o, f) ==
  /\ Idle(t)
  /\ f \in GlobalRefOps
  /\ o # NoObject => live[o] /\ globals[o] < MaxRefs /\ weak_globals[o] < MaxRefs
  /\ pc' = [pc EXCEPT ![t] = "ref_null"]
  /\ op' = [op EXCEPT ![t] = f]
  /\ self' = [self EXCEPT ![t] = o]
  /\ ret' = NoRet
  /\ UNCHANGED << bit_flags, app_lock_counter, object_address, live, stub_flag, table_entry,
                  mem, payload, cur, arg, observed, kset, base,
                  result, no_swap, is_zygote, globals, weak_globals, gc, table, card,
                  field_offset, sweep, num_pages >>

\* if (obj == nullptr) return nullptr;
AddGlobalRefCheckNull(t) ==
  /\ pc[t] = "ref_null"
  /\ IF self[t] = NoObject
       THEN /\ Finish(t)
            /\ ret' = [op |-> op[t], e |-> NoEntry, was |-> FALSE, obj |-> NoObject,
                       val |-> 0, arg |-> 0]
       ELSE /\ pc' = [pc EXCEPT ![t] = "ref_flag"]
            /\ ret' = NoRet
            /\ UNCHANGED << op, self, cur, arg, observed, kset, base >>
  /\ UNCHANGED << bit_flags, app_lock_counter, object_address, live, stub_flag, table_entry,
                  mem, payload,
                  result, no_swap, is_zygote, globals, weak_globals, gc, table, card,
                  field_offset, sweep, num_pages >>

\* a call that goes on to the reference table without flagging the object
AddGlobalRefSkipsFlag(t) ==
  /\ pc[t] = "ref_flag"
  /\ pc' = [pc EXCEPT ![t] = "ref_add"]
  /\ ret' = NoRet
  /\ UNCHANGED << bit_flags, app_lock_counter, object_address, live, stub_flag, table_entry,
                  mem, payload, op, self, cur, arg, observed, kset, base,
                  result, no_swap, is_zygote, globals, weak_globals, gc, table, card,
                  field_offset, sweep, num_pages >>

\* obj->SetNoSwapFlag();
AddGlobalRefSetFlag(t) ==
  /\ pc[t] = "ref_flag"
  /\ no_swap' = [no_swap EXCEPT ![self[t]] = SetNoSwapFlag(@)]
  /\ pc' = [pc EXCEPT ![t] = "ref_add"]
  /\ ret' = NoRet
  /\ UNCHANGED << bit_flags, app_lock_counter, object_address, live, stub_flag, table_entry,
                  mem, payload, op, self, cur, arg, observed, kset, base,
                  result, is_zygote, globals, weak_globals, gc, table, card,
                  field_offset, sweep, num_pages >>

\* ref = globals_.Add(...) or weak_globals_.Add(...), and the reference is returned
AddGlobalRefAdd(t) ==
  /\ pc[t] = "ref_add"
  /\ IF op[t] = "AddGlobalRef"
       THEN /\ globals' = [globals EXCEPT ![self[t]] = @ + 1]
            /\ UNCHANGED weak_globals
       ELSE /\ weak_globals' = [weak_globals EXCEPT ![self[t]] = @ + 1]
            /\ UNCHANGED globals
  /\ ret' = [op |-> op[t], e |-> NoEntry, was |-> TRUE, obj |-> self[t], val |-> 0,
             arg |-> 0]
  /\ Finish(t)
  /\ UNCHANGED << bit_flags, app_lock_counter, object_address, live, stub_flag, table_entry,
                  mem, payload,
                  result, no_swap, is_zygote, gc, table, card,
                  field_offset, sweep, num_pages >>

(* ---------------------------------------------------------------------- *)
(* JavaVMExt::DeleteGlobalRef / JavaVMExt::DeleteWeakGlobalRef             *)
(* ---------------------------------------------------------------------- *)
\* a DeleteGlobalRef that makes the object swappable again with its last reference
DeleteGlobalRefClearsFlag(o) ==
  /\ o # NoObject /\ live[o] /\ globals[o] > 0
  /\ globals' = [globals EXCEPT ![o] = @ - 1]
  /\ no_swap' = [no_swap EXCEPT ![o] = IF globals[o] = 1 THEN FALSE ELSE @]
  /\ ret' = [op |-> "DeleteGlobalRef", e |-> NoEntry, was |-> TRUE, obj |-> o,
             val |-> 0, arg |-> 0]
  /\ UNCHANGED << bit_flags, app_lock_counter, object_address, live, stub_flag, table_entry,
                  mem, payload, pc, op, self, cur, arg, observed, kset, base,
                  result, is_zygote, weak_globals, gc, table, card,
                  field_offset, sweep, num_pages >>

\* DeleteGlobalRef(self, obj) under jni_globals_lock_: null returns at once; otherwise
\* globals_.Remove(kIRTFirstSegment, obj), with a warning when no entry is found
DeleteGlobalRef(o) ==
  /\ o # NoObject => live[o]
  /\ IF o # NoObject /\ globals[o] > 0
       THEN globals' = [globals EXCEPT ![o] = @ - 1]
       ELSE UNCHANGED globals
  /\ ret' = [op |-> "DeleteGlobalRef", e |-> NoEntry, was |-> o # NoObject /\ globals[o] > 0,
             obj |-> o, val |-> 0, arg |-> 0]
  /\ UNCHANGED << bit_flags, app_lock_counter, object_address, live, stub_flag, table_entry,
                  mem, payload, pc, op, self, cur, arg, observed, kset, base,
                  result, is_zygote, no_swap, weak_globals, gc, table, card,
                  field_offset, sweep, num_pages >>

\* DeleteWeakGlobalRef(self, obj) under jni_weak_globals_lock_: null returns at once;
\* otherwise weak_globals_.Remove(kIRTFirstSegment, obj)
DeleteWeakGlobalRef(o) ==
  /\ o # NoObject => live[o]
  /\ IF o # NoObject /\ weak_globals[o] > 0
       THEN weak_globals' = [weak_globals EXCEPT ![o] = @ - 1]
       ELSE UNCHANGED weak_globals
  /\ ret' = [op |-> "DeleteWeakGlobalRef", e |-> NoEntry,
             was |-> o # NoObject /\ weak_globals[o] > 0, obj |-> o, val |-> 0, arg |-> 0]
  /\ UNCHANGED << bit_flags, app_lock_counter, object_address, live, stub_flag, table_entry,
                  mem, payload, pc, op, self, cur, arg, observed, kset, base,
                  result, is_zygote, no_swap, globals, gc, table, card,
                  field_offset, sweep, num_pages >>

\* UnlockAllEntries(), called with all application threads paused outside any handshake
UnlockAllEntries ==
  /\ \A t \in Threads : Idle(t)
  /\ bit_flags' = [e \in Entries |->
       IF e \in Begin .. End - 1 THEN ClearBit(bit_flags[e], KERNEL_LOCK_BIT_OFFSET)
                                ELSE bit_flags[e]]
  /\ app_lock_counter' = [e \in Entries |->
       IF e \in Begin .. End - 1 THEN ZeroAppLockCounter(app_lock_counter[e])
                                ELSE app_lock_counter[e]]
  /\ ret' = [op |-> "UnlockAllEntries", e |-> NoEntry,
             was |-> \E e \in Entries : GetKernelLockBit(e) /\ app_lock_counter[e] > 0,
             obj |-> NoObject, val |-> 0, arg |-> 0]
  /\ UNCHANGED << object_address, live, stub_flag, table_entry, mem, payload, pc, op, self,
                  cur, arg, observed, kset, base,
                  result, no_swap, is_zygote, globals, weak_globals, gc, table, card,
                  field_offset, sweep, num_pages >>

(* ---------------------------------------------------------------------- *)
(* Object::SetFieldObjectWithoutWriteBarrier                               *)
(* ---------------------------------------------------------------------- *)
\* a thread calls SetFieldObjectWithoutWriteBarrier(field_offset, new_value) on object o
BeginSet(t, o, v) ==
  /\ Idle(t)
  /\ live[o]
  /\ pc' = [pc EXCEPT ![t] = "set_check"]
  /\ op' = [op EXCEPT ![t] = "set"]
  /\ self' = [self EXCEPT ![t] = o]
  /\ arg' = [arg EXCEPT ![t] = v]
  /\ ret' = NoRet
  /\ UNCHANGED << bit_flags, app_lock_counter, object_address, live, stub_flag, table_entry,
                  mem, payload, cur, observed, kset, base,
                  result, no_swap, is_zygote, globals, weak_globals, gc, table, card,
                  field_offset, sweep, num_pages >>

\* if (UNLIKELY(GetStubFlag())) { stub->LockTableEntry(); ...
SetCheckStub(t) ==
  /\ pc[t] = "set_check"
  /\ IF stub_flag[self[t]]
       THEN /\ pc' = [pc EXCEPT ![t] = "spin1"]
            /\ cur' = [cur EXCEPT ![t] = table_entry[self[t]]]
            /\ base' = [base EXCEPT ![t] = app_lock_counter[table_entry[self[t]]]]
       ELSE /\ pc' = [pc EXCEPT ![t] = "set_direct"]
            /\ UNCHANGED << cur, base >>
  /\ ret' = NoRet
  /\ UNCHANGED << bit_flags, app_lock_counter, object_address, live, stub_flag, table_entry,
                  mem, payload, op, self, arg, observed, kset,
                  result, no_swap, is_zygote, globals, weak_globals, gc, table, card,
                  field_offset, sweep, num_pages >>

\* a direct store that lands in the swap payload instead of the memory at `this`
SetDirectToPayload(t) ==
  /\ pc[t] = "set_direct"
  /\ payload' = [payload EXCEPT ![self[t]] = arg[t]]
  /\ SetReturn(t)
  /\ ret' = NoRet
  /\ UNCHANGED << bit_flags, app_lock_counter, object_address, live, stub_flag, table_entry,
                  mem,
                  result, no_swap, is_zygote, globals, weak_globals, gc, table, card,
                  field_offset, sweep, num_pages >>

\* the direct store: objref_addr->Assign(new_value)
SetDirect(t) ==
  /\ pc[t] = "set_direct"
  /\ mem' = [mem EXCEPT ![self[t]] = arg[t]]
  /\ SetReturn(t)
  /\ ret' = NoRet
  /\ UNCHANGED << bit_flags, app_lock_counter, object_address, live, stub_flag, table_entry,
                  payload,
                  result, no_swap, is_zygote, globals, weak_globals, gc, table, card,
                  field_offset, sweep, num_pages >>

\* a residency test that never asks for a swap-in
NeedsSwapInNever(resident) == FALSE

\* UNLIKELY(!stub->GetTableEntry()->GetResidentBit()), on the value GetResidentBit() returned
NeedsSwapIn(resident) == ~resident

\* if (UNLIKELY(!stub->GetTableEntry()->GetResidentBit()))
SetCheckResident(t) ==
  /\ pc[t] = "set_resident"
  /\ pc' = [pc EXCEPT ![t] =
       IF NeedsSwapIn(GetResidentBit(cur[t])) THEN "set_swapin" ELSE "set_forward"]
  /\ ret' = NoRet
  /\ UNCHANGED << bit_flags, app_lock_counter, object_address, live, stub_flag, table_entry,
                  mem, payload, op, self, cur, arg, observed, kset, base,
                  result, no_swap, is_zygote, globals, weak_globals, gc, table, card,
                  field_offset, sweep, num_pages >>

\* niel::swap::SwapInOnDemand(stub): the payload is repopulated and resident is set
SwapInOnDemand(t) ==
  /\ pc[t] = "set_swapin"
  /\ object_address' = [object_address EXCEPT ![cur[t]] = self[t]]
  /\ bit_flags' = [bit_flags EXCEPT ![cur[t]] = SetBit(@, RESIDENT_BIT_OFFSET)]
  /\ pc' = [pc EXCEPT ![t] = "set_forward"]
  /\ ret' = NoRet
  /\ UNCHANGED << app_lock_counter, live, stub_flag, table_entry, mem, payload, op, self,
                  cur, arg, observed, kset, base,
                  result, no_swap, is_zygote, globals, weak_globals, gc, table, card,
                  field_offset, sweep, num_pages >>

\* a stub path that does not forward the store
SetForwardDropped(t) ==
  /\ pc[t] = "set_forward"
  /\ pc' = [pc EXCEPT ![t] = "set_populate"]
  /\ ret' = NoRet
  /\ UNCHANGED << bit_flags, app_lock_counter, object_address, live, stub_flag, table_entry,
                  mem, payload, op, self, cur, arg, observed, kset, base,
                  result, no_swap, is_zygote, globals, weak_globals, gc, table, card,
                  field_offset, sweep, num_pages >>

\* ((Object *)(stub->GetObjectAddress()))->SetFieldObjectWithoutWriteBarrier(...)
SetForward(t) ==
  /\ pc[t] = "set_forward"
  /\ payload' = [payload EXCEPT ![object_address[cur[t]]] = arg[t]]
  /\ pc' = [pc EXCEPT ![t] = "set_populate"]
  /\ ret' = NoRet
  /\ UNCHANGED << bit_flags, app_lock_counter, object_address, live, stub_flag, table_entry,
                  mem, op, self, cur, arg, observed, kset, base,
                  result, no_swap, is_zygote, globals, weak_globals, gc, table, card,
                  field_offset, sweep, num_pages >>

\* stub->PopulateFrom(stub->GetObjectAddress())
PopulateFrom(t) ==
  /\ pc[t] = "set_populate"
  /\ mem' = [mem EXCEPT ![self[t]] = payload[object_address[cur[t]]]]
  /\ pc' = [pc EXCEPT ![t] = "set_unlock"]
  /\ ret' = NoRet
  /\ UNCHANGED << bit_flags, app_lock_counter, object_address, live, stub_flag, table_entry,
                  payload, op, self, cur, arg, observed, kset, base,
                  result, no_swap, is_zygote, globals, weak_globals, gc, table, card,
                  field_offset, sweep, num_pages >>

\* a release of the handshake that also clears kernel_lock
UnlockTableEntryClearsKernelLock(t) ==
  /\ pc[t] = "set_unlock"
  /\ app_lock_counter' = [app_lock_counter EXCEPT ![cur[t]] = DecrAppLockCounter(@)]
  /\ bit_flags' = [bit_flags EXCEPT ![cur[t]] = ClearBit(@, KERNEL_LOCK_BIT_OFFSET)]
  /\ SetReturn(t)
  /\ ret' = NoRet
  /\ UNCHANGED << object_address, live, stub_flag, table_entry, mem, payload,
                  result, no_swap, is_zygote, globals, weak_globals, gc, table, card,
                  field_offset, sweep, num_pages >>

\* a release of the handshake that also marks the payload as swapped out again
UnlockTableEntryClearsResident(t) ==
  /\ pc[t] = "set_unlock"
  /\ app_lock_counter' = [app_lock_counter EXCEPT ![cur[t]] = DecrAppLockCounter(@)]
  /\ bit_flags' = [bit_flags EXCEPT ![cur[t]] = ClearBit(@, RESIDENT_BIT_OFFSET)]
  /\ SetReturn(t)
  /\ ret' = NoRet
  /\ UNCHANGED << object_address, live, stub_flag, table_entry, mem, payload,
                  result, no_swap, is_zygote, globals, weak_globals, gc, table, card,
                  field_offset, sweep, num_pages >>

\* a stub path without its return: after UnlockTableEntry it falls through to the
\* direct store
UnlockTableEntryThenDirectStore(t) ==
  /\ pc[t] = "set_unlock"
  /\ app_lock_counter' = [app_lock_counter EXCEPT ![cur[t]] = DecrAppLockCounter(@)]
  /\ pc' = [pc EXCEPT ![t] = "set_direct"]
  /\ ret' = NoRet
  /\ UNCHANGED << bit_flags, object_address, live, stub_flag, table_entry, mem, payload,
                  op, self, cur, arg, observed, kset, base,
                  result, no_swap, is_zygote, globals, weak_globals, gc, table, card,
                  field_offset, sweep, num_pages >>

\* stub->UnlockTableEntry(); return;
UnlockTableEntry(t) ==
  /\ pc[t] = "set_unlock"
  /\ app_lock_counter' = [app_lock_counter EXCEPT ![cur[t]] = DecrAppLockCounter(@)]
  /\ SetReturn(t)
  /\ ret' = NoRet
  /\ UNCHANGED << bit_flags, object_address, live, stub_flag, table_entry, mem, payload,
                  result, no_swap, is_zygote, globals, weak_globals, gc, table, card,
                  field_offset, sweep, num_pages >>

(* ---------------------------------------------------------------------- *)
(* Object::SetFieldObject                                                  *)
(* ---------------------------------------------------------------------- *)
\* a thread calls SetFieldObject(field_offset, new_value) on object o: it begins with the
\* call of SetFieldObjectWithoutWriteBarrier
BeginSetFieldObject(t, o, v) ==
  /\ Idle(t)
  /\ live[o]
  /\ pc' = [pc EXCEPT ![t] = "set_check"]
  /\ op' = [op EXCEPT ![t] = "sfo"]
  /\ self' = [self EXCEPT ![t] = o]
  /\ arg' = [arg EXCEPT ![t] = v]
  /\ ret' = NoRet
  /\ UNCHANGED << bit_flags, app_lock_counter, object_address, live, stub_flag, table_entry,
                  mem, payload, cur, observed, kset, base,
                  result, no_swap, is_zygote, globals, weak_globals, gc, table, card,
                  field_offset, sweep, num_pages >>

\* a test that sends a null new_value to the write barrier too
NonNullAlways(v) == TRUE

\* new_value != nullptr
NonNull(v) == v # 0

\* if (new_value != nullptr) { ... } after the store has returned
SetFieldObjectCheckNull(t) ==
  /\ pc[t] = "sfo_check"
  /\ IF NonNull(arg[t])
       THEN /\ pc' = [pc EXCEPT ![t] = "sfo_barrier"]
            /\ UNCHANGED << op, self, cur, arg, observed, kset, base >>
       ELSE Finish(t)
  /\ ret' = NoRet
  /\ UNCHANGED << bit_flags, app_lock_counter, object_address, live, stub_flag, table_entry,
                  mem, payload,
                  result, no_swap, is_zygote, globals, weak_globals, gc, table, card,
                  field_offset, sweep, num_pages >>

\* WriteBarrier::ForFieldWrite(this, field_offset, new_value); CheckFieldAssignment(...)
ForFieldWrite(t) ==
  /\ pc[t] = "sfo_barrier"
  /\ card' = [card EXCEPT ![self[t]] = TRUE]
  /\ ret' = [op |-> "ForFieldWrite", e |-> NoEntry, was |-> stub_flag[self[t]],
             obj |-> self[t], val |-> arg[t], arg |-> arg[t]]
  /\ Finish(t)
  /\ UNCHANGED << bit_flags, app_lock_counter, object_address, live, stub_flag, table_entry,
                  mem, payload,
                  result, no_swap, is_zygote, globals, weak_globals, gc, table,
                  field_offset, sweep, num_pages >>

(* ---------------------------------------------------------------------- *)
(* The swap preamble of Object::GetFieldObject and                         *)
(* Object::VisitFieldsReferences, and the caller of a store/read pair      *)
(* ---------------------------------------------------------------------- *)
\* a thread calls GetFieldObject(field_offset) on object o, field_offset past the header
BeginGet(t, o) ==
  /\ Idle(t)
  /\ live[o]
  /\ pc' = [pc EXCEPT ![t] = "pre_check"]
  /\ op' = [op EXCEPT ![t] = "get"]
  /\ self' = [self EXCEPT ![t] = o]
  /\ ret' = NoRet
  /\ UNCHANGED << bit_flags, app_lock_counter, object_address, live, stub_flag, table_entry,
                  mem, payload, cur, arg, observed, kset, base,
                  result, no_swap, is_zygote, globals, weak_globals, gc, table, card,
                  field_offset, sweep, num_pages >>

\* the collector calls VisitFieldsReferences(ref_offsets, visitor) on object o
BeginVisit(t, o) ==
  /\ Idle(t)
  /\ live[o]
  /\ pc' = [pc EXCEPT ![t] = "pre_check"]
  /\ op' = [op EXCEPT ![t] = "visit"]
  /\ self' = [self EXCEPT ![t] = o]
  /\ ret' = NoRet
  /\ UNCHANGED << bit_flags, app_lock_counter, object_address, live, stub_flag, table_entry,
                  mem, payload, cur, arg, observed, kset, base,
                  result, no_swap, is_zygote, globals, weak_globals, gc, table, card,
                  field_offset, sweep, num_pages >>

\* a thread runs SetFieldObject(field_offset, x) on object o and then GetFieldObject(field_offset)
BeginRoundTrip(t, o, x) ==
  /\ Idle(t)
  /\ live[o]
  /\ pc' = [pc EXCEPT ![t] = "set_check"]
  /\ op' = [op EXCEPT ![t] = "rt_set"]
  /\ self' = [self EXCEPT ![t] = o]
  /\ arg' = [arg EXCEPT ![t] = x]
  /\ ret' = NoRet
  /\ UNCHANGED << bit_flags, app_lock_counter, object_address, live, stub_flag, table_entry,
                  mem, payload, cur, observed, kset, base,
                  result, no_swap, is_zygote, globals, weak_globals, gc, table, card,
                  field_offset, sweep, num_pages >>

\* the preamble tests the stub flag and, on a stub, takes the handshake of its entry
PreambleCheckStub(t) ==
  /\ pc[t] = "pre_check"
  /\ IF stub_flag[self[t]]
       THEN /\ pc' = [pc EXCEPT ![t] = "spin1"]
            /\ cur' = [cur EXCEPT ![t] = table_entry[self[t]]]
            /\ base' = [base EXCEPT ![t] = app_lock_counter[table_entry[self[t]]]]
       ELSE /\ pc' = [pc EXCEPT ![t] = IF op[t] = "put" THEN "put_direct" ELSE "pre_direct"]
            /\ UNCHANGED << cur, base >>
  /\ ret' = NoRet
  /\ UNCHANGED << bit_flags, app_lock_counter, object_address, live, stub_flag, table_entry,
                  mem, payload, op, self, arg, observed, kset,
                  result, no_swap, is_zygote, globals, weak_globals, gc, table, card,
                  field_offset, sweep, num_pages >>

\* what a finished read hands to its caller
ReadReturn(t, v) ==
  [op |-> IF op[t] = "rt_get" THEN "RoundTrip"
          ELSE IF op[t] = "visit" THEN "VisitFieldsReferences"
          ELSE IF op[t] = "put" THEN "SetField32" ELSE "GetFieldObject",
   e |-> cur[t], was |-> stub_flag[self[t]], obj |-> self[t], val |-> v, arg |-> arg[t]]

\* the direct read of the field in the memory at `this`, and the return
DirectRead(t) ==
  /\ pc[t] = "pre_direct"
  /\ ret' = ReadReturn(t, mem[self[t]])
  /\ Finish(t)
  /\ UNCHANGED << bit_flags, app_lock_counter, object_address, live, stub_flag, table_entry,
                  mem, payload,
                  result, no_swap, is_zygote, globals, weak_globals, gc, table, card,
                  field_offset, sweep, num_pages >>

\* the preamble tests the resident bit of the locked entry
PreambleCheckResident(t) ==
  /\ pc[t] = "pre_resident"
  /\ pc' = [pc EXCEPT ![t] =
       IF NeedsSwapIn(GetResidentBit(cur[t])) THEN "pre_swapin" ELSE "pre_forward"]
  /\ ret' = NoRet
  /\ UNCHANGED << bit_flags, app_lock_counter, object_address, live, stub_flag, table_entry,
                  mem, payload, op, self, cur, arg, observed, kset, base,
                  result, no_swap, is_zygote, globals, weak_globals, gc, table, card,
                  field_offset, sweep, num_pages >>

\* the preamble swaps the object in: SwapInOnDemand(stub)
PreambleSwapIn(t) ==
  /\ pc[t] = "pre_swapin"
  /\ object_address' = [object_address EXCEPT ![cur[t]] = self[t]]
  /\ bit_flags' = [bit_flags EXCEPT ![cur[t]] = SetBit(@, RESIDENT_BIT_OFFSET)]
  /\ pc' = [pc EXCEPT ![t] = "pre_forward"]
  /\ ret' = NoRet
  /\ UNCHANGED << app_lock_counter, live, stub_flag, table_entry, mem, payload, op, self,
                  cur, arg, observed, kset, base,
                  result, no_swap, is_zygote, globals, weak_globals, gc, table, card,
                  field_offset, sweep, num_pages >>

\* the preamble forwards the read to the object at GetObjectAddress()
PreambleForward(t) ==
  /\ pc[t] = "pre_forward"
  /\ op[t] # "put"
  /\ result' = [result EXCEPT ![t] = payload[object_address[cur[t]]]]
  /\ pc' = [pc EXCEPT ![t] = "pre_populate"]
  /\ ret' = NoRet
  /\ UNCHANGED << bit_flags, app_lock_counter, object_address, live, stub_flag, table_entry,
                  mem, payload, op, self, cur, arg, observed, kset, base,
                  no_swap, is_zygote, globals, weak_globals, gc, table, card,
                  field_offset, sweep, num_pages >>

\* the preamble refreshes the stub: PopulateFrom(GetObjectAddress())
PreamblePopulate(t) ==
  /\ pc[t] = "pre_populate"
  /\ mem' = [mem EXCEPT ![self[t]] = payload[object_address[cur[t]]]]
  /\ pc' = [pc EXCEPT ![t] = "pre_unlock"]
  /\ ret' = NoRet
  /\ UNCHANGED << bit_flags, app_lock_counter, object_address, live, stub_flag, table_entry,
                  payload, op, self, cur, arg, observed, kset, base,
                  result, no_swap, is_zygote, globals, weak_globals, gc, table, card,
                  field_offset, sweep, num_pages >>

\* the preamble releases the handshake and returns what the forwarded read returned
PreambleUnlock(t) ==
  /\ pc[t] = "pre_unlock"
  /\ app_lock_counter' = [app_lock_counter EXCEPT ![cur[t]] = DecrAppLockCounter(@)]
  /\ ret' = ReadReturn(t, result[t])
  /\ result' = [result EXCEPT ![t] = 0]
  /\ Finish(t)
  /\ UNCHANGED << bit_flags, object_address, live, stub_flag, table_entry, mem, payload,
                  no_swap, is_zygote, globals, weak_globals, gc, table, card,
                  field_offset, sweep, num_pages >>

(* ---------------------------------------------------------------------- *)
(* The offset test of the accessors: GetFieldByte .. SetField64, the 64-bit *)
(* compare-and-swaps, GetFieldObject, GetFieldObjectReferenceAddr           *)
(* ---------------------------------------------------------------------- *)
\* the field offsets of the model: the header and two offsets past it
Offsets == 0 .. SizeOfObject + 1

\* an offset test that sends every offset through the preamble
PastHeaderAlways(offset) == TRUE

\* field_offset.Uint32Value() >= sizeof(Object)
PastHeader(offset) == offset >= SizeOfObject

\* a thread calls a guarded read (GetFieldByte, GetFieldChar, GetFieldShort, GetFieldObject,
\* GetFieldObjectReferenceAddr) on object o at field_offset
BeginGetAt(t, o, offset) ==
  /\ Idle(t)
  /\ live[o]
  /\ pc' = [pc EXCEPT ![t] = "off_check"]
  /\ op' = [op EXCEPT ![t] = "get"]
  /\ self' = [self EXCEPT ![t] = o]
  /\ field_offset' = [field_offset EXCEPT ![t] = offset]
  /\ ret' = NoRet
  /\ UNCHANGED << bit_flags, app_lock_counter, object_address, live, stub_flag, table_entry,
                  mem, payload, cur, arg, observed, kset, base,
                  result, no_swap, is_zygote, globals, weak_globals, gc, table, card, sweep, num_pages >>

\* a thread calls a guarded write (SetFieldBoolean, SetFieldByte, SetFieldChar,
\* SetFieldShort, SetField32, SetField64) on object o at field_offset
BeginPutAt(t, o, offset, v) ==
  /\ Idle(t)
  /\ live[o]
  /\ pc' = [pc EXCEPT ![t] = "off_check"]
  /\ op' = [op EXCEPT ![t] = "put"]
  /\ self' = [self EXCEPT ![t] = o]
  /\ arg' = [arg EXCEPT ![t] = v]
  /\ field_offset' = [field_offset EXCEPT ![t] = offset]
  /\ ret' = NoRet
  /\ UNCHANGED << bit_flags, app_lock_counter, object_address, live, stub_flag, table_entry,
                  mem, payload, cur, observed, kset, base,
                  result, no_swap, is_zygote, globals, weak_globals, gc, table, card, sweep, num_pages >>

\* if (field_offset.Uint32Value() >= sizeof(Object)) { SWAP_PREAMBLE_TEMPLATE(...) }
OffsetCheck(t) ==
  /\ pc[t] = "off_check"
  /\ pc' = [pc EXCEPT ![t] =
       IF PastHeader(field_offset[t]) THEN "pre_check"
       ELSE IF op[t] = "put" THEN "put_direct" ELSE "pre_direct"]
  /\ ret' = NoRet
  /\ UNCHANGED << bit_flags, app_lock_counter, object_address, live, stub_flag, table_entry,
                  mem, payload, op, self, cur, arg, observed, kset, base,
                  result, no_swap, is_zygote, globals, weak_globals, gc, table, card,
                  field_offset, sweep, num_pages >>

\* SetFieldPrimitive(field_offset, new_value): the write to the memory at `this`
PutDirect(t) ==
  /\ pc[t] = "put_direct"
  /\ mem' = [mem EXCEPT ![self[t]] = arg[t]]
  /\ ret' = ReadReturn(t, arg[t])
  /\ Finish(t)
  /\ UNCHANGED << bit_flags, app_lock_counter, object_address, live, stub_flag, table_entry,
                  payload,
                  result, no_swap, is_zygote, globals, weak_globals, gc, table, card,
                  field_offset, sweep, num_pages >>

\* the preamble forwards the write to the object at GetObjectAddress()
PreambleForwardPut(t) ==
  /\ pc[t] = "pre_forward"
  /\ op[t] = "put"
  /\ payload' = [payload EXCEPT ![object_address[cur[t]]] = arg[t]]
  /\ result' = [result EXCEPT ![t] = arg[t]]
  /\ pc' = [pc EXCEPT ![t] = "pre_populate"]
  /\ ret' = NoRet
  /\ UNCHANGED << bit_flags, app_lock_counter, object_address, live, stub_flag, table_entry,
                  mem, op, self, cur, arg, observed, kset, base,
                  no_swap, is_zygote, globals, weak_globals, gc, table, card,
                  field_offset, sweep, num_pages >>

\* the steps of an offset-guarded accessor before and besides its preamble
GuardedStep(t) ==
  \/ OffsetCheck(t)
  \/ PutDirect(t)
  \/ PreambleForwardPut(t)

(* ---------------------------------------------------------------------- *)
(* Object::CasFieldObjectWithoutWriteBarrier                               *)
(* ---------------------------------------------------------------------- *)
\* a thread calls CasFieldObjectWithoutWriteBarrier(field_offset, old_value, new_value)
\* on object o; the function tests no stub flag and takes no handshake
BeginCas(t, o, old, new) ==
  /\ Idle(t)
  /\ live[o]
  /\ pc' = [pc EXCEPT ![t] = "cas_direct"]
  /\ op' = [op EXCEPT ![t] = "cas"]
  /\ self' = [self EXCEPT ![t] = o]
  /\ arg' = [arg EXCEPT ![t] = new]
  /\ base' = [base EXCEPT ![t] = old]
  /\ ret' = NoRet
  /\ UNCHANGED << bit_flags, app_lock_counter, object_address, live, stub_flag, table_entry,
                  mem, payload, cur, observed, kset,
                  result, no_swap, is_zygote, globals, weak_globals, gc, table, card,
                  field_offset, sweep, num_pages >>

\* atomic_addr->CompareAndSet(old_ref, new_ref, ...) on the memory at `this`
CasDirect(t) ==
  /\ pc[t] = "cas_direct"
  /\ mem' = [mem EXCEPT ![self[t]] = IF @ = base[t] THEN arg[t] ELSE @]
  /\ Finish(t)
  /\ ret' = NoRet
  /\ UNCHANGED << bit_flags, app_lock_counter, object_address, live, stub_flag, table_entry,
                  payload,
                  result, no_swap, is_zygote, globals, weak_globals, gc, table, card,
                  field_offset, sweep, num_pages >>

(* ---------------------------------------------------------------------- *)
(* Object::CompareAndExchangeFieldObject, Object::ExchangeFieldObject      *)
(* ---------------------------------------------------------------------- *)
\* a thread calls CompareAndExchangeFieldObject(field_offset, old_value, new_value) on
\* object o; the function tests no stub flag and takes no handshake
BeginCompareAndExchange(t, o, old, new) ==
  /\ Idle(t)
  /\ live[o]
  /\ pc' = [pc EXCEPT ![t] = "cmpxchg_direct"]
  /\ op' = [op EXCEPT ![t] = "cmpxchg"]
  /\ self' = [self EXCEPT ![t] = o]
  /\ arg' = [arg EXCEPT ![t] = new]
  /\ base' = [base EXCEPT ![t] = old]
  /\ ret' = NoRet
  /\ UNCHANGED << bit_flags, app_lock_counter, object_address, live, stub_flag, table_entry,
                  mem, payload, cur, observed, kset,
                  result, no_swap, is_zygote, globals, weak_globals, gc, table, card,
                  field_offset, sweep, num_pages >>

\* atomic_addr->compare_exchange_strong(old_ref, new_ref, ...) on the memory at `this`;
\* the witness value is returned
CompareAndExchangeDirect(t) ==
  /\ pc[t] = "cmpxchg_direct"
  /\ mem' = [mem EXCEPT ![self[t]] = IF @ = base[t] THEN arg[t] ELSE @]
  /\ Finish(t)
  /\ ret' = [op |-> "CompareAndExchangeFieldObject", e |-> NoEntry, was |-> stub_flag[self[t]],
             obj |-> self[t], val |-> mem[self[t]], arg |-> arg[t]]
  /\ UNCHANGED << bit_flags, app_lock_counter, object_address, live, stub_flag, table_entry,
                  payload,
                  result, no_swap, is_zygote, globals, weak_globals, gc, table, card,
                  field_offset, sweep, num_pages >>

\* a thread calls ExchangeFieldObject(field_offset, new_value) on object o; the function
\* tests no stub flag and takes no handshake
BeginExchange(t, o, new) ==
  /\ Idle(t)
  /\ live[o]
  /\ pc' = [pc EXCEPT ![t] = "xchg_direct"]
  /\ op' = [op EXCEPT ![t] = "xchg"]
  /\ self' = [self EXCEPT ![t] = o]
  /\ arg' = [arg EXCEPT ![t] = new]
  /\ ret' = NoRet
  /\ UNCHANGED << bit_flags, app_lock_counter, object_address, live, stub_flag, table_entry,
                  mem, payload, cur, observed, kset, base,
                  result, no_swap, is_zygote, globals, weak_globals, gc, table, card,
                  field_offset, sweep, num_pages >>

\* atomic_addr->exchange(new_ref, ...) on the memory at `this`; the old value is returned
ExchangeDirect(t) ==
  /\ pc[t] = "xchg_direct"
  /\ mem' = [mem EXCEPT ![self[t]] = arg[t]]
  /\ Finish(t)
  /\ ret' = [op |-> "ExchangeFieldObject", e |-> NoEntry, was |-> stub_flag[self[t]],
             obj |-> self[t], val |-> mem[self[t]], arg |-> arg[t]]
  /\ UNCHANGED << bit_flags, app_lock_counter, object_address, live, stub_flag, table_entry,
                  payload,
                  result, no_swap, is_zygote, globals, weak_globals, gc, table, card,
                  field_offset, sweep, num_pages >>

(* ---------------------------------------------------------------------- *)
(* Specifications                                                          *)
(* ---------------------------------------------------------------------- *)
ThreadsIdle ==
  /\ pc = [t \in Threads |-> "idle"]
  /\ op = [t \in Threads |-> "none"]
  /\ self = [t \in Threads |-> NoObject]
  /\ cur = [t \in Threads |-> NoEntry]
  /\ arg = [t \in Threads |-> 0]
  /\ observed = [t \in Threads |-> FALSE]
  /\ kset = [t \in Threads |-> FALSE]
  /\ base = [t \in Threads |-> 0]
  /\ result = [t \in Threads |-> 0]
  /\ field_offset = [t \in Threads |-> 0]

\* no object is excluded from swapping or referenced from native code, the runtime has
\* left the zygote, no object is being freed
RuntimeIdle ==
  /\ no_swap = [o \in Objects |-> FALSE]
  /\ is_zygote = FALSE
  /\ globals = [o \in Objects |-> 0]
  /\ weak_globals = [o \in Objects |-> 0]
  /\ gc = NoFree
  /\ sweep = NoSweep
  /\ num_pages = [e \in Entries |-> 0]
  /\ table = AllocatedTable(NumEntries)
  /\ card = [o \in Objects |-> FALSE]

\* the table after CreateTable, the heap with every address allocated, all threads idle
Init ==
  /\ bit_flags = [e \in Entries |-> 0]
  /\ app_lock_counter = [e \in Entries |-> 0]
  /\ object_address = [e \in Entries |-> NoObject]
  /\ live = [o \in Objects |-> TRUE]
  /\ stub_flag = [o \in Objects |-> FALSE]
  /\ table_entry = [o \in Objects |-> NoEntry]
  /\ mem = [o \in Objects |-> 0]
  /\ payload = [o \in Objects |-> 0]
  /\ ThreadsIdle
  /\ RuntimeIdle
  /\ ret = NoRet

\* the steps of LockFromAppThread
LockStep(t) ==
  \/ LockFromAppThread_Spin1(t)
  \/ LockFromAppThread_Incr1(t)
  \/ LockFromAppThread_Spin2(t)
  \/ LockFromAppThread_Incr2(t)

\* the steps of a caller of LockFromAppThread / UnlockFromAppThread
HarnessStep(t) ==
  \/ UnlockFromAppThread(t)
  \/ EndLock(t)

\* the steps of SetFieldObjectWithoutWriteBarrier
SetStep(t) ==
  \/ SetCheckStub(t)
  \/ SetDirect(t)
  \/ SetCheckResident(t)
  \/ SwapInOnDemand(t)
  \/ SetForward(t)
  \/ PopulateFrom(t)
  \/ UnlockTableEntry(t)

\* the steps of a reference read or of the field visitor
PreambleStep(t) ==
  \/ PreambleCheckStub(t)
  \/ DirectRead(t)
  \/ PreambleCheckResident(t)
  \/ PreambleSwapIn(t)
  \/ PreambleForward(t)
  \/ PreamblePopulate(t)
  \/ PreambleUnlock(t)

\* the counter of the entry an operation on object o would lock is within the model's cap
Capped(o) == stub_flag[o] => app_lock_counter[table_entry[o]] <= MaxCounter

\* the operations of the single external owner of the table and of the allocator
OwnerStep ==
  \/ \E o \in Objects, e \in Entries : SelectForEviction(o, e)
  \/ \E o \in Objects : Free(o)
  \/ \E o \in Objects : Alloc(o)
  \/ UnlockAllEntries

\* the kernel actor
KernelStep ==
  \/ \E e \in Entries : KernelSetLock(e)
  \/ \E e \in Entries : KernelClearLock(e)

(* ---------------------------------------------------------------------- *)
(* The handshake on one entry: application threads racing LockFromAppThread *)
(* against the kernel actor toggling kernel_lock                            *)
(* ---------------------------------------------------------------------- *)
\* the entry and the object of the handshake harness: the first slot, bound to the first object
HarnessEntry == CHOOSE e \in Entries : \A f \in Entries : e <= f
HarnessObject == CHOOSE o \in Objects : \A q \in Objects : o <= q

\* the state after the owner selected HarnessObject for eviction into HarnessEntry
InitHandshake ==
  /\ bit_flags = [e \in Entries |-> IF e = HarnessEntry THEN SetBit(0, OCCUPIED_BIT_OFFSET) ELSE 0]
  /\ app_lock_counter = [e \in Entries |-> 0]
  /\ object_address = [e \in Entries |-> NoObject]
  /\ live = [o \in Objects |-> TRUE]
  /\ stub_flag = [o \in Objects |-> o = HarnessObject]
  /\ table_entry = [o \in Objects |-> IF o = HarnessObject THEN HarnessEntry ELSE NoEntry]
  /\ mem = [o \in Objects |-> 0]
  /\ payload = [o \in Objects |-> 0]
  /\ ThreadsIdle
  /\ RuntimeIdle
  /\ ret = NoRet

NextHandshake ==
  \/ \E t \in Threads : LockStep(t)
  \/ \E t \in Threads : HarnessStep(t)
  \/ \E t \in Threads : app_lock_counter[HarnessEntry] <= MaxCounter /\ BeginLock(t, HarnessEntry)
  \/ KernelSetLock(HarnessEntry)
  \/ KernelClearLock(HarnessEntry)

SpecHandshake == InitHandshake /\ [][NextHandshake]_vars

(* ---------------------------------------------------------------------- *)
(* One thread, no kernel activity: Lock then Unlock from any counter value  *)
(* ---------------------------------------------------------------------- *)
HarnessThread == CHOOSE t \in Threads : TRUE

InitLockUnlock ==
  /\ bit_flags = [e \in Entries |-> IF e = HarnessEntry THEN SetBit(0, OCCUPIED_BIT_OFFSET) ELSE 0]
  /\ \E c \in 0 .. Uint8Mod - 1 :
       app_lock_counter = [e \in Entries |-> IF e = HarnessEntry THEN c ELSE 0]
  /\ object_address = [e \in Entries |-> NoObject]
  /\ live = [o \in Objects |-> TRUE]
  /\ stub_flag = [o \in Objects |-> o = HarnessObject]
  /\ table_entry = [o \in Objects |-> IF o = HarnessObject THEN HarnessEntry ELSE NoEntry]
  /\ mem = [o \in Objects |-> 0]
  /\ payload = [o \in Objects |-> 0]
  /\ ThreadsIdle
  /\ RuntimeIdle
  /\ ret = NoRet

NextLockUnlock ==
  \/ LockStep(HarnessThread)
  \/ HarnessStep(HarnessThread)
  \/ BeginLock(HarnessThread, HarnessEntry)

SpecLockUnlock == InitLockUnlock /\ [][NextLockUnlock]_vars

\* the same thread running Lock/Unlock pairs one after the other on a slot fresh from
\* CreateEntry (counter 0)
SpecPairs == InitHandshake /\ [][NextLockUnlock]_vars

(* ---------------------------------------------------------------------- *)
(* The table under its single owner, stub stores by an application thread   *)
(* and the kernel actor                                                     *)
(* ---------------------------------------------------------------------- *)
Next ==
  \/ LockStep(HarnessThread)
  \/ SetStep(HarnessThread)
  \/ Capped(HarnessObject) /\ BeginSet(HarnessThread, HarnessObject, 0)
  \/ KernelStep
  \/ OwnerStep

Spec == Init /\ [][Next]_vars

(* ---------------------------------------------------------------------- *)
(* Reference stores and compare-and-swaps on one object that the owner      *)
(* evicts, frees and reallocates                                            *)
(* ---------------------------------------------------------------------- *)
NextStub ==
  \/ LockStep(HarnessThread)
  \/ SetStep(HarnessThread)
  \/ \E v \in Vals : Capped(HarnessObject) /\ BeginSet(HarnessThread, HarnessObject, v)
  \/ \E old \in Vals, new \in Vals : BeginCas(HarnessThread, HarnessObject, old, new)
  \/ CasDirect(HarnessThread)
  \/ \E old \in Vals, new \in Vals :
       BeginCompareAndExchange(HarnessThread, HarnessObject, old, new)
  \/ CompareAndExchangeDirect(HarnessThread)
  \/ \E new \in Vals : BeginExchange(HarnessThread, HarnessObject, new)
  \/ ExchangeDirect(HarnessThread)
  \/ KernelStep
  \/ \E e \in Entries : SelectForEviction(HarnessObject, e)
  \/ Free(HarnessObject)
  \/ Alloc(HarnessObject)

SpecStub == Init /\ [][NextStub]_vars

(* ---------------------------------------------------------------------- *)
(* Field accesses of a mutator and the collector's field visitor on a stub  *)
(* that starts non-resident and on objects that are no stubs                *)
(* ---------------------------------------------------------------------- *)
NextAccess ==
  \/ \E t \in Threads : LockStep(t)
  \/ \E t \in Threads : SetStep(t)
  \/ \E t \in Threads : PreambleStep(t)
  \/ \E o \in Objects, v \in Vals : Capped(o) /\ BeginSet(HarnessThread, o, v)
  \/ \E o \in Objects : Capped(o) /\ BeginGet(HarnessThread, o)
  \/ \E t \in Threads \ {HarnessThread}, o \in Objects : Capped(o) /\ BeginVisit(t, o)
  \/ KernelSetLock(HarnessEntry)
  \/ KernelClearLock(HarnessEntry)

SpecAccess == InitHandshake /\ [][NextAccess]_vars

(* ---------------------------------------------------------------------- *)
(* One thread running SetField(o, x); GetField(o) on an object that the     *)
(* owner evicts, frees and reallocates, with the kernel actor               *)
(* ---------------------------------------------------------------------- *)
NextRoundTrip ==
  \/ LockStep(HarnessThread)
  \/ SetStep(HarnessThread)
  \/ PreambleStep(HarnessThread)
  \/ \E x \in Vals : Capped(HarnessObject) /\ BeginRoundTrip(HarnessThread, HarnessObject, x)
  \/ Capped(HarnessObject) /\ BeginGet(HarnessThread, HarnessObject)
  \/ KernelStep
  \/ \E e \in Entries : SelectForEviction(HarnessObject, e)
  \/ Free(HarnessObject)
  \/ Alloc(HarnessObject)

SpecRoundTrip == InitHandshake /\ [][NextRoundTrip]_vars

(* ---------------------------------------------------------------------- *)
(* A kernel_lock that is set and never cleared: reference stores on stubs   *)
(* of the stuck entry and of the other entries                              *)
(* ---------------------------------------------------------------------- *)
\* the objects the owner selected for eviction: the harness object and the one after it
StuckStubs == {o \in Objects \cap Entries : o <= HarnessObject + 1}

\* the state after the owner selected the objects of StuckStubs for eviction: object o is a
\* non-resident stub bound to slot o
InitStuck ==
  /\ bit_flags = [e \in Entries |-> IF e \in StuckStubs THEN SetBit(0, OCCUPIED_BIT_OFFSET) ELSE 0]
  /\ app_lock_counter = [e \in Entries |-> 0]
  /\ object_address = [e \in Entries |-> NoObject]
  /\ live = [o \in Objects |-> TRUE]
  /\ stub_flag = [o \in Objects |-> o \in StuckStubs]
  /\ table_entry = [o \in Objects |-> IF o \in StuckStubs THEN o ELSE NoEntry]
  /\ mem = [o \in Objects |-> 0]
  /\ payload = [o \in Objects |-> 0]
  /\ ThreadsIdle
  /\ RuntimeIdle
  /\ ret = NoRet

\* the steps of a reference store on a stub
StubSetStep(t) ==
  \/ SetCheckStub(t)
  \/ SetCheckResident(t)
  \/ SwapInOnDemand(t)
  \/ SetForward(t)
  \/ PopulateFrom(t)
  \/ UnlockTableEntry(t)

\* the steps of application thread t: reference stores on stubs
ThreadStep(t) ==
  \/ LockStep(t)
  \/ StubSetStep(t)
  \/ \E o \in Objects : stub_flag[o] /\ Capped(o) /\ BeginSet(t, o, 0)

\* the kernel actor enters its critical section on the first slot and never leaves it
NextStuck ==
  \/ \E t \in Threads : ThreadStep(t)
  \/ KernelSetLock(HarnessEntry)

SpecStuck == InitStuck /\ [][NextStuck]_vars

\* every application thread that can take a step eventually takes one
SpecStuckFair == SpecStuck /\ \A t \in Threads : WF_vars(LockStep(t) \/ StubSetStep(t))

(* ---------------------------------------------------------------------- *)
(* The collector freeing large objects step by step, the allocator reusing  *)
(* their addresses, the owner evicting and a thread storing through stubs   *)
(* ---------------------------------------------------------------------- *)
\* object o is not the garbage the collector is freeing
Reachable(o) == gc.obj # o

NextFree ==
  \/ \E o \in Objects, sp \in LargeObjectSpaces : FreeCall(o, sp)
  \/ FreeNotify
  \/ FreeRelease
  \/ \E o \in Objects : Alloc(o)
  \/ \E o \in Objects, e \in Entries : Reachable(o) /\ SelectForEviction(o, e)
  \/ LockStep(HarnessThread)
  \/ SetStep(HarnessThread)
  \/ /\ Reachable(HarnessObject) /\ Capped(HarnessObject)
     /\ BeginSet(HarnessThread, HarnessObject, 0)
  \/ KernelStep

SpecFree == Init /\ [][NextFree]_vars

(* ---------------------------------------------------------------------- *)
(* Exclusion from swapping: large objects allocated by the zygote and       *)
(* after the fork, global and weak global references, and the owner         *)
(* selecting objects for eviction                                           *)
(* ---------------------------------------------------------------------- *)
(* The runtime creates the reclamation table, retrying after a failed       *)
(* allocation, and uses the slots of a valid handle                         *)
(* ---------------------------------------------------------------------- *)
\* the runtime holds a default-constructed handle, nothing is evicted
InitTable ==
  /\ bit_flags = [e \in Entries |-> 0]
  /\ app_lock_counter = [e \in Entries |-> 0]
  /\ object_address = [e \in Entries |-> NoObject]
  /\ live = [o \in Objects |-> TRUE]
  /\ stub_flag = [o \in Objects |-> FALSE]
  /\ table_entry = [o \in Objects |-> NoEntry]
  /\ mem = [o \in Objects |-> 0]
  /\ payload = [o \in Objects |-> 0]
  /\ ThreadsIdle
  /\ no_swap = [o \in Objects |-> FALSE]
  /\ is_zygote = FALSE
  /\ globals = [o \in Objects |-> 0]
  /\ weak_globals = [o \in Objects |-> 0]
  /\ gc = NoFree
  /\ sweep = NoSweep
  /\ num_pages = [e \in Entries |-> 0]
  /\ table = DefaultTable
  /\ card = [o \in Objects |-> FALSE]
  /\ ret = NoRet

NextTable ==
  \/ \E n \in 1 .. NumEntries, allocated \in BOOLEAN : CreateTable(n, allocated)
  \/ \E o \in Objects, e \in TableSlots(table) : SelectForEviction(o, e)
  \/ \E o \in Objects : Free(o)
  \/ \E o \in Objects : Alloc(o)
  \/ LockStep(HarnessThread)
  \/ SetStep(HarnessThread)
  \/ \E o \in Objects : Capped(o) /\ BeginSet(HarnessThread, o, 0)

SpecTable == InitTable /\ [][NextTable]_vars

(* ---------------------------------------------------------------------- *)
(* SetFieldObject by one thread on a stub and on an ordinary object, the    *)
(* kernel actor toggling kernel_lock of the stub's entry                    *)
(* ---------------------------------------------------------------------- *)
\* the steps of SetFieldObject after its store has returned
BarrierStep(t) ==
  \/ SetFieldObjectCheckNull(t)
  \/ ForFieldWrite(t)

NextBarrier ==
  \/ LockStep(HarnessThread)
  \/ SetStep(HarnessThread)
  \/ BarrierStep(HarnessThread)
  \/ \E o \in Objects, v \in Vals : Capped(o) /\ BeginSetFieldObject(HarnessThread, o, v)
  \/ KernelSetLock(HarnessEntry)
  \/ KernelClearLock(HarnessEntry)

SpecBarrier == InitHandshake /\ [][NextBarrier]_vars

(* ---------------------------------------------------------------------- *)
(* Threads setting and clearing the three flags of the entries concurrently *)
(* ---------------------------------------------------------------------- *)
NextBits ==
  \/ \E t \in Threads, e \in Entries, offset \in BitOffsets, set \in BOOLEAN :
       BeginBitOp(t, e, offset, set)
  \/ \E t \in Threads : FetchOr(t)
  \/ \E t \in Threads : FetchAnd(t)

SpecBits == Init /\ [][NextBits]_vars

(* ---------------------------------------------------------------------- *)
\* the zygote starts with an empty large object space
InitNoSwap ==
  /\ bit_flags = [e \in Entries |-> 0]
  /\ app_lock_counter = [e \in Entries |-> 0]
  /\ object_address = [e \in Entries |-> NoObject]
  /\ live = [o \in Objects |-> FALSE]
  /\ stub_flag = [o \in Objects |-> FALSE]
  /\ table_entry = [o \in Objects |-> NoEntry]
  /\ mem = [o \in Objects |-> 0]
  /\ payload = [o \in Objects |-> 0]
  /\ ThreadsIdle
  /\ no_swap = [o \in Objects |-> FALSE]
  /\ is_zygote = TRUE
  /\ globals = [o \in Objects |-> 0]
  /\ weak_globals = [o \in Objects |-> 0]
  /\ gc = NoFree
  /\ sweep = NoSweep
  /\ num_pages = [e \in Entries |-> 0]
  /\ table = AllocatedTable(NumEntries)
  /\ card = [o \in Objects |-> FALSE]
  /\ ret = NoRet

\* the steps of AddGlobalRef / AddWeakGlobalRef
AddGlobalRefStep(t) ==
  \/ AddGlobalRefCheckNull(t)
  \/ AddGlobalRefSetFlag(t)
  \/ AddGlobalRefAdd(t)

NextNoSwap ==
  \/ \E o \in Objects : AllocObjectWithAllocator(o)
  \/ ZygoteFork
  \/ \E o \in Objects \cup {NoObject} : BeginAddGlobalRef(HarnessThread, o, "AddGlobalRef")
  \/ \E t \in Threads \ {HarnessThread}, o \in Objects \cup {NoObject} :
       BeginAddGlobalRef(t, o, "AddWeakGlobalRef")
  \/ \E t \in Threads : AddGlobalRefStep(t)
  \/ \E o \in Objects : SelectForEviction(o, HarnessEntry)

SpecNoSwap == InitNoSwap /\ [][NextNoSwap]_vars

(* ---------------------------------------------------------------------- *)
(* Stores on the first stub by all threads while the kernel actor enters    *)
(* and leaves its critical section on the stub's slot                       *)
(* ---------------------------------------------------------------------- *)
NextLive ==
  \/ \E t \in Threads : LockStep(t)
  \/ \E t \in Threads : StubSetStep(t)
  \/ \E t \in Threads : Capped(HarnessObject) /\ BeginSet(t, HarnessObject, 0)
  \/ KernelSetLock(HarnessEntry)
  \/ KernelClearLock(HarnessEntry)

SpecLive == InitStuck /\ [][NextLive]_vars

\* every application thread that can take a step eventually takes one; nothing is assumed
\* of the kernel actor
SpecLiveFair == SpecLive /\ \A t \in Threads : WF_vars(LockStep(t) \/ StubSetStep(t))

(* ---------------------------------------------------------------------- *)
(* Offset-guarded reads and writes by one thread, at header offsets and     *)
(* past the header, on a stub and on an ordinary object                     *)
(* ---------------------------------------------------------------------- *)
NextOffset ==
  \/ LockStep(HarnessThread)
  \/ PreambleStep(HarnessThread)
  \/ GuardedStep(HarnessThread)
  \/ \E o \in Objects, offset \in Offsets : Capped(o) /\ BeginGetAt(HarnessThread, o, offset)
  \/ \E o \in Objects, offset \in Offsets, v \in Vals :
       Capped(o) /\ BeginPutAt(HarnessThread, o, offset, v)
  \/ KernelSetLock(HarnessEntry)
  \/ KernelClearLock(HarnessEntry)

SpecOffset == InitHandshake /\ [][NextOffset]_vars

(* ---------------------------------------------------------------------- *)
(* The sweep of a large object space: bulk frees of objects the owner may   *)
(* have evicted, and reallocation of the freed addresses                    *)
(* ---------------------------------------------------------------------- *)
NextSweep ==
  \/ \E ptrs \in PointerLists, sp \in LargeObjectSpaces : BeginFreeList(ptrs, sp)
  \/ FreeListStep
  \/ \E o \in Objects : sweep.pc = "idle" /\ Alloc(o)
  \/ \E o \in Objects, e \in Entries : sweep.pc = "idle" /\ SelectForEviction(o, e)
  \/ \E e \in Entries : KernelSetLock(e)
  \/ \E e \in Entries : KernelClearLock(e)

SpecSweep == Init /\ [][NextSweep]_vars

(* ---------------------------------------------------------------------- *)
(* The collector freeing large objects of every space variant, the memory   *)
(* tool's one included                                                      *)
(* ---------------------------------------------------------------------- *)
NextMemoryTool ==
  \/ \E o \in Objects, sp \in LargeObjectSpaceVariants : FreeCall(o, sp)
  \/ FreeNotify
  \/ FreeRelease
  \/ \E o \in Objects : Alloc(o)
  \/ \E o \in Objects, e \in Entries : Reachable(o) /\ SelectForEviction(o, e)
  \/ KernelStep

SpecMemoryTool == Init /\ [][NextMemoryTool]_vars

(* ---------------------------------------------------------------------- *)
(* Global and weak global references created and deleted, objects dying     *)
(* once unreferenced and their addresses allocated again                    *)
(* ---------------------------------------------------------------------- *)
\* no reference and no call in progress names object o
Unreferenced(o) ==
  /\ globals[o] = 0 /\ weak_globals[o] = 0
  /\ \A t \in Threads : Idle(t) \/ self[t] # o

NextRefs ==
  \/ \E o \in Objects : AllocObjectWithAllocator(o)
  \/ ZygoteFork
  \/ \E o \in Objects \cup {NoObject}, f \in GlobalRefOps : BeginAddGlobalRef(HarnessThread, o, f)
  \/ AddGlobalRefStep(HarnessThread)
  \/ \E o \in Objects \cup {NoObject} : DeleteGlobalRef(o)
  \/ \E o \in Objects \cup {NoObject} : DeleteWeakGlobalRef(o)
  \/ \E o \in Objects : Unreferenced(o) /\ Free(o)

SpecRefs == InitNoSwap /\ [][NextRefs]_vars

(* ---------------------------------------------------------------------- *)
(* Every slot of the table occupied by a stub: one thread locking and       *)
(* unlocking any entry, the others the first entry, the kernel actor on the *)
(* first entry, the owner recording page counts and running                 *)
(* UnlockAllEntries while the threads are paused                            *)
(* ---------------------------------------------------------------------- *)
\* entry e is bound to object e; all entries but the first are resident
InitFrame ==
  /\ bit_flags = [e \in Entries |->
       IF e = HarnessEntry \/ e \notin Objects
         THEN SetBit(0, OCCUPIED_BIT_OFFSET)
         ELSE SetBit(SetBit(0, OCCUPIED_BIT_OFFSET), RESIDENT_BIT_OFFSET)]
  /\ app_lock_counter = [e \in Entries |-> 0]
  /\ object_address = [e \in Entries |->
       IF e = HarnessEntry \/ e \notin Objects THEN NoObject ELSE e]
  /\ live = [o \in Objects |-> TRUE]
  /\ stub_flag = [o \in Objects |-> o \in Entries]
  /\ table_entry = [o \in Objects |-> IF o \in Entries THEN o ELSE NoEntry]
  /\ mem = [o \in Objects |-> 0]
  /\ payload = [o \in Objects |-> 0]
  /\ ThreadsIdle
  /\ RuntimeIdle
  /\ ret = NoRet

NextFrame ==
  \/ \E t \in Threads : LockStep(t)
  \/ \E t \in Threads : HarnessStep(t)
  \/ \E e \in Entries : app_lock_counter[e] < MaxCounter /\ BeginLock(HarnessThread, e)
  \/ \E t \in Threads \ {HarnessThread} :
       app_lock_counter[HarnessEntry] < MaxCounter /\ BeginLock(t, HarnessEntry)
  \/ KernelSetLock(HarnessEntry)
  \/ KernelClearLock(HarnessEntry)
  \/ \E e \in Entries, num \in 0 .. MaxPages :
       (\A t \in Threads : Idle(t)) /\ SetNumPages(e, num)
  \/ UnlockAllEntries

SpecFrame == InitFrame /\ [][NextFrame]_vars

(* ====================================================================== *)
(* Properties                                                              *)
(* ====================================================================== *)

(* C1: with the kernel actor toggling kernel_lock and two application      *)
(* threads racing LockFromAppThread on one entry, a thread is past a spin  *)
(* (about to increment, or in its post-lock section) only if the last read *)
(* of kernel_lock made by its own spin returned clear.                     *)
C1_PostLockOnlyAfterClearRead ==
  \A t \in Threads : pc[t] \in {"incr1", "incr2"} \cup PostLock => observed[t] = FALSE

\* one thread is in its post-lock section while the other spins on a kernel_lock it read set
C1_Witness ==
  \E t \in Threads, u \in Threads :
    t # u /\ pc[t] \in PostLock /\ pc[u] = "spin2" /\ observed[u] = TRUE

(* C2, as stated: no application thread is between the return of           *)
(* LockFromAppThread and UnlockFromAppThread while kernel_lock is set.      *)
C2_NoPostLockWhileKernelLock ==
  \A t \in Threads : pc[t] \in PostLock => ~GetKernelLockBit(cur[t])

(* C2, amended: an application thread is between the return of             *)
(* LockFromAppThread and UnlockFromAppThread while kernel_lock is set only  *)
(* if the kernel actor set kernel_lock after the thread's last read of it.  *)
C2_KernelLockOnlySetAfterLastRead ==
  \A t \in Threads : pc[t] \in PostLock /\ GetKernelLockBit(cur[t]) => kset[t]

\* a thread in its post-lock section with kernel_lock set behind its back
C2_Witness ==
  \E t \in Threads : pc[t] = "locked" /\ GetKernelLockBit(cur[t]) /\ kset[t]

(* C3: one LockFromAppThread followed by one UnlockFromAppThread, with no  *)
(* kernel activity and no other thread, leaves app_lock_counter 1 above its *)
(* value before the call (2 above after the lock), for every starting value *)
(* whose two increments do not wrap.                                        *)
C3_LockUnlockAddsOne ==
  \A t \in Threads :
    base[t] + 2 < Uint8Mod =>
      /\ pc[t] = "locked" => app_lock_counter[cur[t]] = base[t] + 2
      /\ pc[t] = "unlocked" => app_lock_counter[cur[t]] = base[t] + 1

\* the pair has run from the largest starting value that does not wrap
C3_Witness ==
  \E t \in Threads :
    /\ pc[t] = "unlocked"
    /\ base[t] = Uint8Mod - 3
    /\ app_lock_counter[cur[t]] = Uint8Mod - 2

(* C4: LockFromAppThread starts in its first spin, leaves a spin only in a *)
(* step in which kernel_lock reads clear and only to the increment that     *)
(* follows it, increments by exactly one after each spin with its last read *)
(* clear, returns after the second increment, and no step of it lowers or   *)
(* otherwise changes the counter.                                           *)
C4_LockOrder ==
  [][\A t \in Threads :
       /\ (pc[t] \notin InLock /\ pc'[t] \in InLock) => pc'[t] = "spin1"
       /\ (pc[t] = "spin1" /\ pc'[t] # "spin1") =>
            /\ pc'[t] = "incr1"
            /\ ~GetKernelLockBit(cur[t]) /\ observed'[t] = FALSE
            /\ app_lock_counter' = app_lock_counter
       /\ (pc[t] = "incr1" /\ pc'[t] # "incr1") =>
            /\ pc'[t] = "spin2"
            /\ observed[t] = FALSE
            /\ app_lock_counter'[cur[t]] = (app_lock_counter[cur[t]] + 1) % Uint8Mod
       /\ (pc[t] = "spin2" /\ pc'[t] # "spin2") =>
            /\ pc'[t] = "incr2"
            /\ ~GetKernelLockBit(cur[t]) /\ observed'[t] = FALSE
            /\ app_lock_counter' = app_lock_counter
       /\ (pc[t] = "incr2" /\ pc'[t] # "incr2") =>
            /\ pc'[t] \in PostLock
            /\ observed[t] = FALSE
            /\ app_lock_counter'[cur[t]] = (app_lock_counter[cur[t]] + 1) % Uint8Mod
    ]_vars

\* a lock has returned with both increments applied while the kernel actor toggled kernel_lock
C4_Witness ==
  \E t \in Threads, u \in Threads :
    /\ t # u /\ pc[t] = "locked" /\ pc[u] = "idle"
    /\ app_lock_counter[cur[t]] = base[t] + 2
    /\ kset[t] /\ ~GetKernelLockBit(cur[t])

(* C5: at the moment CreateEntry returns a slot, after any sequence of     *)
(* CreateEntry, FreeEntry, handshakes, swap-ins, kernel activity and        *)
(* UnlockAllEntries under the single-caller contract, the slot has          *)
(* occupied=true, resident=false, kernel_lock=false and app_lock_counter=0. *)
C5_CreateEntryReturnsResetSlot ==
  ret.op = "CreateEntry" =>
    /\ ret.e \in Begin .. End - 1
    /\ GetOccupiedBit(ret.e)
    /\ ~GetResidentBit(ret.e)
    /\ ~GetKernelLockBit(ret.e)
    /\ app_lock_counter[ret.e] = 0

\* CreateEntry returns while another slot is resident, kernel-locked and counted
C5_Witness ==
  /\ ret.op = "CreateEntry"
  /\ \E f \in Entries \ {ret.e} :
       GetResidentBit(f) /\ GetKernelLockBit(f) /\ app_lock_counter[f] > 0

(* C6: FreeEntry, called when no thread is mid-handshake on the entry,     *)
(* leaves the slot with occupied, kernel_lock and resident clear and        *)
(* app_lock_counter 0, whatever they were before the call.                  *)
C6_FreeEntryClearsSlot ==
  ret.op = "FreeEntry" =>
    /\ ~GetOccupiedBit(ret.e)
    /\ ~GetKernelLockBit(ret.e)
    /\ ~GetResidentBit(ret.e)
    /\ app_lock_counter[ret.e] = 0
    /\ \A t \in Threads : ~MidHandshake(t, ret.e)

\* FreeEntry has run on a slot that held residual state
C6_Witness == ret.op = "FreeEntry" /\ ret.was /\ ~GetOccupiedBit(ret.e)

(* C7: when CreateEntry returns a slot that an earlier, freed owner had     *)
(* made resident, the slot shows resident=false, kernel_lock=false and a    *)
(* zero counter: nothing of the prior owner's lock or residency state.      *)
C7_FreeThenReuse ==
  (ret.op = "CreateEntry" /\ ret.was) => ~Residual(ret.e)

\* the slot of a freed, once resident owner is handed out again
C7_Witness ==
  /\ ret.op = "CreateEntry" /\ ret.was
  /\ object_address[ret.e] # NoObject
  /\ GetOccupiedBit(ret.e)

(* C8: after UnlockAllEntries, called with every application thread paused *)
(* outside any handshake, every entry of the table, occupied or not, has    *)
(* kernel_lock=false and app_lock_counter=0.                                *)
C8_UnlockAllEntriesRecovers ==
  ret.op = "UnlockAllEntries" =>
    \A e \in Entries : ~GetKernelLockBit(e) /\ app_lock_counter[e] = 0

\* UnlockAllEntries has run on a table with a locked entry, occupied entries left occupied
C8_Witness ==
  /\ ret.op = "UnlockAllEntries" /\ ret.was
  /\ \E e \in Entries : GetOccupiedBit(e) /\ GetResidentBit(e)

(* C9: in every reachable state a slot with occupied=false has             *)
(* kernel_lock=false, resident=false and app_lock_counter=0.                *)
C9_FreeSlotIsReset ==
  \A e \in Entries : ~GetOccupiedBit(e) => ~Residual(e)

\* a slot is free again after an owner that was swapped in
C9_Witness ==
  \E e \in Entries : ~GetOccupiedBit(e) /\ object_address[e] # NoObject

(* C10: whenever a thread is about to read or write a field of a           *)
(* stub-flagged object (in a reference store, a compare-and-swap or the     *)
(* refresh of the stub) it holds the handshake of the object's entry: it    *)
(* has returned from LockFromAppThread and not yet called                   *)
(* UnlockFromAppThread.                                                     *)
C10_StubFieldAccessHoldsHandshake ==
  \A t \in Threads :
    (pc[t] \in FieldAccess /\ stub_flag[self[t]]) =>
      (pc[t] \in PostLock /\ cur[t] = table_entry[self[t]])

(* C11: the memory at the address of a stub-flagged object changes only in *)
(* the refresh of the stub from its resident payload, never by a reference  *)
(* store, compare-and-swap, compare-and-exchange or exchange applied to the *)
(* stub's own address: those are forwarded to the payload.                  *)
C11_StubMemoryOnlyRefreshed ==
  [][\A o \in Objects :
       (stub_flag[o] /\ stub_flag'[o] /\ mem'[o] # mem[o]) =>
         \E t \in Threads : self[t] = o /\ pc[t] \in {"set_populate", "pre_populate"}
    ]_vars

(* C12: whenever a stub access (a reference store, a reference read or the *)
(* collector's field visitor) is about to read object_address, to forward   *)
(* its operation or to refresh the stub, the resident flag of the entry is  *)
(* set.                                                                     *)
C12_ForwardOnlyWhenResident ==
  \A t \in Threads :
    pc[t] \in {"set_forward", "set_populate", "pre_forward", "pre_populate"} =>
      GetResidentBit(cur[t]) /\ object_address[cur[t]] # NoObject

\* the visitor forwards to the payload while the mutator, which also read resident clear,
\* has not yet run its own swap-in
C12_Witness ==
  \E t \in Threads, u \in Threads :
    /\ op[t] = "visit" /\ pc[t] = "pre_forward"
    /\ op[u] = "set" /\ pc[u] = "set_swapin" /\ cur[u] = cur[t]

(* C13: SetField(stub, x) followed by GetField(stub) by the same caller,   *)
(* with no other writer, returns x for every x, and when the object is a    *)
(* stub the resident flag of its entry is set when the pair returns.        *)
C13_StubRoundTrip ==
  ret.op = "RoundTrip" =>
    /\ ret.val = ret.arg
    /\ ret.was => GetResidentBit(ret.e)

\* the pair has returned a non-null x on a stub whose entry saw only the two handshakes of
\* this pair since CreateEntry: the entry was non-resident when the pair began
C13_Witness ==
  /\ ret.op = "RoundTrip" /\ ret.was
  /\ ret.val = MaxVal /\ mem[ret.obj] = MaxVal
  /\ app_lock_counter[ret.e] = 2

(* C14: a step of a reference store or read on an object whose stub flag   *)
(* is clear changes no TableEntry (flags, counter, object_address), and the *)
(* direct store writes new_value into the memory of the addressed object.   *)
C14_DirectPathLeavesTableAlone ==
  [][\A t \in Threads :
       (pc[t] \in {"set_check", "set_direct", "pre_direct"}
          /\ pc'[t] # pc[t] /\ ~stub_flag[self[t]]) =>
         /\ UNCHANGED << bit_flags, app_lock_counter, object_address, payload >>
         /\ pc'[t] \notin InLock \cup PostLock
         /\ pc[t] = "set_direct" => mem'[self[t]] = arg[t]
    ]_vars

\* a direct read has returned the non-null reference a direct store wrote, while the
\* entry of the stub holds a counted handshake
C14_Witness ==
  /\ ret.op = "GetFieldObject" /\ ~ret.was /\ ret.val = MaxVal
  /\ \E e \in Entries : app_lock_counter[e] > 0

(* C15: once kernel_lock of an entry is set and never cleared, a thread    *)
(* that starts a stub access on that entry afterwards stays in the first    *)
(* spin of LockFromAppThread for ever: it never increments, never returns   *)
(* from the lock and never forwards; a stub access on any other entry still *)
(* runs to its return.                                                      *)
C15_StuckKernelLockBlocksAccessors ==
  /\ \A t \in Threads :
       []((GetKernelLockBit(HarnessEntry) /\ Idle(t)) =>
            [](cur[t] = HarnessEntry => pc[t] = "spin1"))
  /\ \A t \in Threads :
       (~Idle(t) /\ self[t] # HarnessObject) ~> Idle(t)

\* a thread spins on the stuck entry, having read kernel_lock set, after the other thread
\* finished a store through another entry
C15_Witness ==
  \E t \in Threads, e \in Entries \ {HarnessEntry} :
    /\ pc[t] = "spin1" /\ cur[t] = HarnessEntry /\ observed[t]
    /\ base[t] = 0 /\ app_lock_counter[HarnessEntry] = 0
    /\ GetResidentBit(e) /\ app_lock_counter[e] > 0
    /\ \A u \in Threads \ {t} : Idle(u)

(* C16: the memory of a large object becomes available for reuse only in   *)
(* the release step of a Free call on that object in which                  *)
(* GcRecordFree(self, obj) has already run, in the map space and in the     *)
(* free list space alike.                                                   *)
C16_HookBeforeRelease ==
  [][\A o \in Objects :
       (live[o] /\ ~live'[o]) =>
         /\ gc.pc = "release" /\ gc.obj = o /\ gc.hooked
         /\ gc.space \in LargeObjectSpaces
    ]_vars

\* a Free of the free list space has run its hook on a resident stub and not yet released
\* the memory
C16_Witness ==
  /\ gc.pc = "release" /\ gc.hooked /\ gc.space = "FreeListSpace"
  /\ live[gc.obj]
  /\ ret.op = "FreeEntry" /\ ret.was

(* C17: once the free notification for an address has returned, and while  *)
(* the address is free, the address carries no stub flag and no entry       *)
(* association; every occupied entry belongs to a live stub that is not     *)
(* freed, and a resident one points at that stub, so an object allocated    *)
(* later at a freed address inherits no stub, residency or lock state.      *)
C17_FreedAddressHasNoBookkeeping ==
  /\ \A o \in Objects :
       (~live[o] \/ (gc.obj = o /\ gc.hooked)) =>
         ~stub_flag[o] /\ table_entry[o] = NoEntry
  /\ \A o \in Objects : ~stub_flag[o] => table_entry[o] = NoEntry
  /\ \A e \in Entries :
       GetOccupiedBit(e) =>
         \E o \in Objects :
           /\ live[o] /\ stub_flag[o] /\ table_entry[o] = e
           /\ ~(gc.obj = o /\ gc.hooked)
           /\ GetResidentBit(e) => object_address[e] = o

\* a new object lives, without a stub, at an address whose earlier object was swapped in
\* through a slot that another stub occupies now
C17_Witness ==
  \E o \in Objects, e \in Entries :
    /\ live[o] /\ ~stub_flag[o] /\ gc = NoFree
    /\ object_address[e] = o
    /\ GetOccupiedBit(e) /\ ~GetResidentBit(e)

(* C18: a reference enters globals_ or weak_globals_ only for an object    *)
(* whose no-swap flag is already set, the object of a returned reference    *)
(* has the flag set, and a call with a null object returns null and changes *)
(* no flag and neither table.                                               *)
C18_NoSwapBeforeReferenceHandedOut ==
  [][/\ \A o \in Objects :
          (globals'[o] > globals[o] \/ weak_globals'[o] > weak_globals[o]) => no_swap[o]
     /\ (ret'.op \in GlobalRefOps /\ ret'.obj # NoObject) =>
          /\ no_swap'[ret'.obj]
          /\ IF ret'.op = "AddGlobalRef" THEN globals'[ret'.obj] = globals[ret'.obj] + 1
                                         ELSE weak_globals'[ret'.obj] = weak_globals[ret'.obj] + 1
     /\ \A t \in Threads :
          (pc[t] = "ref_null" /\ self[t] = NoObject /\ pc'[t] # pc[t]) =>
            /\ ret'.op \in GlobalRefOps /\ ret'.obj = NoObject
            /\ UNCHANGED << no_swap, globals, weak_globals >>
    ]_vars

\* a weak global reference to a flagged object has been handed out while another thread
\* is between flagging an unflagged object and inserting it
C18_Witness ==
  /\ ret.op = "AddWeakGlobalRef" /\ ret.obj # NoObject
  /\ weak_globals[ret.obj] = 1 /\ globals[ret.obj] = 0 /\ no_swap[ret.obj]
  /\ \E t \in Threads :
       /\ pc[t] = "ref_add" /\ op[t] = "AddGlobalRef" /\ self[t] # ret.obj
       /\ no_swap[self[t]] /\ globals[self[t]] = 0

(* C19: when the large object path of AllocObjectWithAllocator returns an  *)
(* object, the object's no-swap flag is set if the runtime is the zygote    *)
(* and clear if it is not.                                                  *)
C19_ZygoteLargeObjectsNoSwap ==
  ret.op = "AllocObjectWithAllocator" =>
    /\ live[ret.obj]
    /\ no_swap[ret.obj] <=> ret.was
    /\ ret.was <=> is_zygote

\* an allocation after the fork returns an unflagged object while an object the zygote
\* allocated, with no global reference, is flagged
C19_Witness ==
  /\ ret.op = "AllocObjectWithAllocator" /\ ~ret.was /\ ~no_swap[ret.obj]
  /\ \E o \in Objects \ {ret.obj} :
       live[o] /\ no_swap[o] /\ globals[o] = 0 /\ weak_globals[o] = 0

(* C20: in no reachable state does an object whose no-swap flag is set     *)
(* have its stub flag set or an occupied TableEntry bound to it.            *)
C20_NoSwapObjectIsNoStub ==
  \A o \in Objects :
    no_swap[o] => ~stub_flag[o] /\ table_entry[o] = NoEntry


(* ---------------------------------------------------------------------- *)
\* C21: CreateTable(n) always returns a handle, and the outcome of the backing
\* allocation shows only in IsValid(): the handle is valid exactly when the storage
\* for the n entries was allocated, and then it spans n slots; a failed allocation
\* yields the default-constructed handle (null base, zero entries), which is not valid.
C21_IsValidReportsAllocation ==
  /\ ~IsValid(DefaultTable)
  /\ ret.op = "CreateTable" =>
       /\ IsValid(table) <=> ret.was
       /\ ret.was => End - Begin >= ret.arg /\ table = AllocatedTable(ret.arg)
                      /\ TableSlots(table) = Begin .. Begin + ret.arg - 1
       /\ ~ret.was => table = DefaultTable /\ TableSlots(table) = {}

\* a CreateTable whose allocation failed has returned
C21_Witness == ret.op = "CreateTable" /\ ~ret.was /\ ~IsValid(table)


(* ---------------------------------------------------------------------- *)
\* C22: in every reachable state the app_lock_counter of an entry equals the number of
\* application threads inside the handshake of that entry; in particular it is 0 when no
\* thread is between LockFromAppThread and UnlockFromAppThread on it. A thread that is
\* still inside LockFromAppThread may or may not be counted yet.
C22_CounterCountsThreadsInside ==
  \A e \in Entries :
    LET returned == {t \in Threads : cur[t] = e /\ pc[t] \in PostLock}
        entering == {t \in Threads : cur[t] = e /\ pc[t] \in InLock}
    IN  /\ Cardinality(returned) <= app_lock_counter[e]
        /\ app_lock_counter[e] <= Cardinality(returned \cup entering)


(* ---------------------------------------------------------------------- *)
\* C23: no step of an application thread (LockFromAppThread, the release of the
\* handshake, a stub field access, the field visitor) changes the kernel_lock bit of any
\* entry: a step in which a thread moves, reads kernel_lock or changes a counter leaves
\* every kernel_lock bit as it was; only the kernel actor sets and clears it.
C23_ThreadStepsLeaveKernelLock ==
  [][(\/ \E t \in Threads : \/ pc'[t] # pc[t]
                            \/ observed'[t] # observed[t]
                            \/ kset[t] /\ ~kset'[t]
      \/ app_lock_counter' # app_lock_counter)
     => \A e \in Entries : GetBit(bit_flags'[e], KERNEL_LOCK_BIT_OFFSET)
                            = GetBit(bit_flags[e], KERNEL_LOCK_BIT_OFFSET)]_vars

\* a store is about to release the handshake of an entry whose kernel_lock is set while
\* the field visitor of another thread is past LockFromAppThread on the same entry
C23_Witness ==
  \E t \in Threads, u \in Threads :
    /\ t # u
    /\ pc[t] = "set_unlock" /\ GetKernelLockBit(cur[t])
    /\ op[u] = "visit" /\ pc[u] \in PostLock /\ cur[u] = cur[t]


(* ---------------------------------------------------------------------- *)
\* C24: in SetFieldObject the write barrier runs after, never instead of, the store:
\* SetFieldObjectWithoutWriteBarrier has returned (on a stub: the forwarded store is in
\* the payload and in the stub's memory and the handshake is released; otherwise the
\* direct store is in memory) before the test of new_value, WriteBarrier::ForFieldWrite
\* runs only from that point and only for a non-null new_value, and SetFieldObject
\* returns through the barrier exactly when new_value is non-null.
C24_BarrierAfterStore ==
  [][\A t \in Threads :
       /\ (pc'[t] = "sfo_check" /\ pc[t] # "sfo_check")
            => /\ pc[t] \in {"set_direct", "set_unlock"}
               /\ cur'[t] = NoEntry
               /\ pc[t] = "set_direct" => mem'[self[t]] = arg[t]
               /\ pc[t] = "set_unlock" =>
                    /\ payload'[object_address[cur[t]]] = arg[t]
                    /\ app_lock_counter'[cur[t]] = (app_lock_counter[cur[t]] - 1) % Uint8Mod
       /\ (pc'[t] = "sfo_barrier" /\ pc[t] # "sfo_barrier")
            => pc[t] = "sfo_check" /\ arg[t] # 0
       /\ (card' # card \/ ret'.op = "ForFieldWrite")
            => \E u \in Threads : /\ pc[u] = "sfo_barrier" /\ pc'[u] = "idle"
                                  /\ arg[u] # 0
                                  /\ card' = [card EXCEPT ![self[u]] = TRUE]
       /\ (op[t] = "sfo" /\ pc'[t] = "idle")
            => /\ arg[t] # 0 => pc[t] = "sfo_barrier" /\ card'[self[t]]
               /\ arg[t] = 0 => pc[t] = "sfo_check" /\ card' = card]_vars

\* SetFieldObject of a non-null reference on a stub has run its barrier: the store is in
\* the payload and in the stub, the entry's handshake is released
C24_Witness ==
  /\ ret.op = "ForFieldWrite" /\ ret.was /\ ret.val # 0
  /\ card[ret.obj] /\ mem[ret.obj] = ret.val /\ payload[ret.obj] = ret.val
  /\ \A t \in Threads : Idle(t)


(* ---------------------------------------------------------------------- *)
\* C25: every set or clear of occupied, kernel_lock or resident is one atomic
\* read-modify-write of the flags byte: whatever the interleaving of the threads, the step
\* that executes a thread's SetBit / ClearBit leaves the addressed bit set / clear and
\* every other bit of that entry, and every other entry, as it was immediately before the
\* step (no update of another thread to the same byte is lost), and nothing else changes
\* the byte.
C25_BitOpsAtomicPerBit ==
  [][/\ \A t \in Threads :
          (pc[t] \in {"fetch_or", "fetch_and"} /\ pc'[t] # pc[t])
            => /\ GetBit(bit_flags'[cur[t]], arg[t]) = (pc[t] = "fetch_or")
               /\ \A b \in BitOffsets \ {arg[t]} :
                    GetBit(bit_flags'[cur[t]], b) = GetBit(bit_flags[cur[t]], b)
               /\ \A e \in Entries \ {cur[t]} : bit_flags'[e] = bit_flags[e]
               /\ bit_flags'[cur[t]] < 2 ^ Cardinality(BitOffsets)
     /\ (bit_flags' # bit_flags)
          => \E t \in Threads : pc[t] \in {"fetch_or", "fetch_and"} /\ pc'[t] = "idle"]_vars

\* a thread has just cleared kernel_lock of an entry whose occupied and resident bits,
\* set by earlier operations, are still set, while the other thread is about to clear
\* the occupied bit of the same entry
C25_Witness ==
  /\ ret.op = "ClearBit" /\ ret.arg = KERNEL_LOCK_BIT_OFFSET /\ ret.was
  /\ GetOccupiedBit(ret.e) /\ GetResidentBit(ret.e) /\ ~GetKernelLockBit(ret.e)
  /\ \E t \in Threads : pc[t] = "fetch_and" /\ cur[t] = ret.e /\ arg[t] = OCCUPIED_BIT_OFFSET


(* ---------------------------------------------------------------------- *)
\* C26: the handshake does not exclude application threads from each other.
\* LockFromAppThread never waits on app_lock_counter: whatever the counter of the entry
\* and wherever the other threads are, a thread inside LockFromAppThread whose entry has
\* kernel_lock clear can take its next step forward. (That two threads hold the handshake
\* of one entry at once is the reachable state C26_Witness.)
C26_LockNeverWaitsOnCounter ==
  \A t \in Threads :
    (pc[t] \in InLock /\ ~GetKernelLockBit(cur[t]))
      => ENABLED (LockStep(t) /\ pc'[t] # pc[t])

\* both threads have returned from LockFromAppThread on the same entry and neither has
\* called UnlockFromAppThread
C26_Witness ==
  \E t \in Threads, u \in Threads :
    /\ t # u /\ cur[t] = cur[u]
    /\ pc[t] = "locked" /\ pc[u] = "locked"
    /\ app_lock_counter[cur[t]] >= 4


(* ---------------------------------------------------------------------- *)
\* C27: a reference store through SetFieldObjectWithoutWriteBarrier on a stub runs, in
\* this order and once each: LockTableEntry, SwapInOnDemand exactly when the resident bit
\* was read clear, the forwarded store of new_value at object_address, PopulateFrom,
\* UnlockTableEntry (one decrement); then it returns without the direct store to the
\* stub's own memory. The store leaves the handshake only through UnlockTableEntry.
C27_StubStoreOrder ==
  [][\A t \in Threads :
       (op[t] \in SetOps /\ pc'[t] # pc[t]) =>
         /\ pc[t] = "set_check" =>
              pc'[t] = IF stub_flag[self[t]] THEN "spin1" ELSE "set_direct"
         /\ pc[t] = "spin1" => pc'[t] = "incr1"
         /\ pc[t] = "incr1" => pc'[t] = "spin2"
         /\ pc[t] = "spin2" => pc'[t] = "incr2"
         /\ pc[t] = "incr2" => pc'[t] = "set_resident"
         /\ pc[t] = "set_resident" =>
              pc'[t] = IF GetResidentBit(cur[t]) THEN "set_forward" ELSE "set_swapin"
         /\ pc[t] = "set_swapin" => pc'[t] = "set_forward"
         /\ pc[t] = "set_forward" =>
              /\ pc'[t] = "set_populate"
              /\ payload'[object_address[cur[t]]] = arg[t]
         /\ pc[t] = "set_populate" => pc'[t] = "set_unlock"
         /\ pc[t] = "set_unlock" =>
              /\ pc'[t] \notin InLock \cup PostLock \cup {"set_check", "set_direct"}
              /\ app_lock_counter'[cur[t]] = (app_lock_counter[cur[t]] - 1) % Uint8Mod
              /\ mem' = mem /\ payload' = payload
         /\ (pc[t] \in InLock \cup PostLock /\ pc'[t] \notin InLock \cup PostLock)
              => pc[t] = "set_unlock"
         /\ pc'[t] = "set_direct" => ~stub_flag[self[t]]]_vars

\* a store of a non-null reference on a stub has taken the handshake, found or made the
\* object resident, forwarded the store, refreshed the stub and is about to release the
\* handshake
C27_Witness ==
  \E t \in Threads :
    /\ op[t] = "set" /\ pc[t] = "set_unlock" /\ arg[t] # 0
    /\ stub_flag[self[t]] /\ GetResidentBit(cur[t])
    /\ object_address[cur[t]] = self[t]
    /\ payload[self[t]] = arg[t] /\ mem[self[t]] = arg[t]
    /\ app_lock_counter[cur[t]] = base[t] + 2


(* ---------------------------------------------------------------------- *)
\* C28: when two application threads access the same stub while its entry is not
\* resident, the swap-in runs at most once for that non-resident period: no two threads
\* storing through SetFieldObjectWithoutWriteBarrier have both read the resident bit of
\* one entry clear and are both about to call SwapInOnDemand for it.
C28_SwapInAtMostOnce ==
  \A t \in Threads, u \in Threads :
    (t # u /\ cur[t] = cur[u] /\ cur[t] # NoEntry)
      => ~(pc[t] = "set_swapin" /\ pc[u] = "set_swapin")


(* ---------------------------------------------------------------------- *)
\* C29: under weak fairness of the application threads, if from some point on kernel_lock
\* of every entry stays clear (every kernel critical section has ended and no new one
\* begins), then every call of LockFromAppThread returns and every started stub access
\* runs on to its call of UnlockFromAppThread.
C29_LockReturnsOnceKernelLockStaysClear ==
  (<>[](\A e \in Entries : ~GetKernelLockBit(e)))
    => \A t \in Threads :
         /\ (pc[t] \in InLock) ~> (pc[t] \in PostLock)
         /\ (~Idle(t)) ~> (pc[t] = "set_unlock")

\* a thread inside LockFromAppThread has read kernel_lock set, the kernel actor has since
\* cleared it, and the other thread is about to release the handshake of the same entry
C29_Witness ==
  \E t \in Threads, u \in Threads :
    /\ t # u /\ cur[t] = HarnessEntry /\ cur[u] = HarnessEntry
    /\ pc[t] = "spin2" /\ observed[t] /\ ~GetKernelLockBit(HarnessEntry)
    /\ pc[u] = "set_unlock"


(* ---------------------------------------------------------------------- *)
\* C30: over every sequence of matched LockFromAppThread / UnlockFromAppThread pairs,
\* with no UnlockAllEntries or FreeEntry, the 8-bit counter never wraps: no increment
\* takes it from 255 to 0 and no decrement is applied to 0 (taking it to 255).
C30_CounterNeverWraps ==
  [][\A e \in Entries :
       /\ ~(app_lock_counter[e] = Uint8Mod - 1 /\ app_lock_counter'[e] = 0)
       /\ ~(app_lock_counter[e] = 0 /\ app_lock_counter'[e] = Uint8Mod - 1)]_vars


(* ---------------------------------------------------------------------- *)
\* C31: an accessor guarded by the offset test enters the stub protocol only for a field
\* offset at or past sizeof(Object). Called with an offset inside the header it goes
\* from the test straight to its direct read or write of the memory at `this`, on a stub
\* as on an ordinary object: it never enters LockFromAppThread, holds no handshake,
\* triggers no swap-in, and its steps leave the table and the payload as they were.
C31_HeaderOffsetsBypassStubProtocol ==
  [][\A t \in Threads :
       /\ (~Idle(t) /\ field_offset[t] < SizeOfObject) =>
            /\ pc'[t] \in {"off_check", "pre_direct", "put_direct", "idle"}
            /\ pc'[t] # pc[t] =>
                 /\ bit_flags' = bit_flags
                 /\ app_lock_counter' = app_lock_counter
                 /\ object_address' = object_address
                 /\ payload' = payload
                 /\ cur'[t] = NoEntry
            /\ (pc[t] = "put_direct" /\ pc'[t] = "idle") => mem'[self[t]] = arg[t]
            /\ (pc[t] = "pre_direct" /\ pc'[t] = "idle") => ret'.val = mem[self[t]]
       /\ (pc[t] = "off_check" /\ pc'[t] # "off_check") =>
            (pc'[t] = "pre_check" <=> field_offset[t] >= SizeOfObject)]_vars

\* a write at a header offset of a non-resident stub has returned: the value is in the
\* stub's own memory, the entry is still non-resident and its counter untouched
C31_Witness ==
  /\ ret.op = "SetField32" /\ ret.was /\ ret.e = NoEntry /\ ret.val # 0
  /\ field_offset[HarnessThread] < SizeOfObject
  /\ mem[ret.obj] = ret.val
  /\ ~GetResidentBit(table_entry[ret.obj])
  /\ app_lock_counter[table_entry[ret.obj]] = 0


(* ---------------------------------------------------------------------- *)
\* C32: a bulk free through FreeList runs the free-notification hook exactly once for
\* each of the num_ptrs pointers, in list order, each before the memory of that pointer is
\* released, and returns the sum of the sizes the individual Free calls returned: the
\* hook and the release of a step are those of ptrs[i], a release follows the hook of
\* the same call, i moves on by one only after ptrs[i] is released, and the loop returns
\* after the last pointer with the sum of all sizes.
C32_FreeListHooksEachPointerOnce ==
  [][sweep.pc # "idle" =>
       /\ (gc.pc = "hook" /\ gc'.pc = "release") =>
            /\ gc.obj = sweep.ptrs[sweep.i] /\ ~gc.hooked /\ gc'.hooked
            /\ live[gc.obj] /\ live'[gc.obj]
            /\ ~stub_flag'[gc.obj] /\ table_entry'[gc.obj] = NoEntry
       /\ \A o \in Objects :
            (live[o] /\ ~live'[o]) =>
              /\ o = sweep.ptrs[sweep.i] /\ gc.obj = o /\ gc.hooked /\ sweep.pc = "in_free"
       /\ gc'.pc = "hook" /\ gc.pc # "hook" =>
            /\ gc.pc = "idle" /\ sweep.pc = "loop"
            /\ gc'.obj = sweep.ptrs[sweep.i] /\ live[gc'.obj]
       /\ sweep'.i # sweep.i /\ sweep'.pc # "idle" =>
            /\ sweep'.i = sweep.i + 1
            /\ ~live[sweep.ptrs[sweep.i]]
            /\ sweep'.total = sweep.total + AllocationSize(sweep.ptrs[sweep.i])
       /\ sweep'.pc = "returned" /\ sweep.pc # "returned" =>
            /\ sweep.i = Len(sweep.ptrs) + 1
            /\ sweep'.total = SumOfSizes(sweep.ptrs)
            /\ \A i \in DOMAIN sweep.ptrs : ~live[sweep.ptrs[i]]
       /\ sweep'.ptrs # sweep.ptrs => sweep'.pc = "idle"]_vars

\* the sweep callback has returned from a bulk free of every object, with the sum of
\* their sizes, and nothing of them is left
C32_Witness ==
  /\ ret.op = "SweepCallback" /\ ret.arg = NumObjects
  /\ ret.val = SumOfSizes([o \in 1 .. NumObjects |-> o])
  /\ \A o \in Objects : ~live[o] /\ ~stub_flag[o]
  /\ \A e \in Entries : ~GetOccupiedBit(e)


(* ---------------------------------------------------------------------- *)
\* C33: the address the free-notification hook is given is the address of the object
\* being freed, the one its accessors and the caller of Free see, in every large object
\* space variant: once the hook of a Free has run, the pointer it received is the
\* object's address, and the stub bookkeeping of that object is gone.
C33_HookReceivesObjectAddress ==
  gc.hooked =>
    /\ gc.ptr = AddressOf(gc.obj)
    /\ ~stub_flag[gc.obj] /\ table_entry[gc.obj] = NoEntry


(* ---------------------------------------------------------------------- *)
\* C34: the no-swap flag is sticky: once it is set on an object, by a large object
\* allocation in the zygote, by AddGlobalRef or by AddWeakGlobalRef, no step clears it
\* while the object lives, and DeleteGlobalRef or DeleteWeakGlobalRef removing the last
\* reference to the object leaves it set.
C34_NoSwapFlagIsSticky ==
  [][\A o \in Objects : (live[o] /\ no_swap[o] /\ live'[o]) => no_swap'[o]]_vars

\* DeleteGlobalRef has removed the last reference to an object and the object is still
\* excluded from swapping, while another live object is not
C34_Witness ==
  /\ ret.op = "DeleteGlobalRef" /\ ret.was
  /\ live[ret.obj] /\ no_swap[ret.obj]
  /\ globals[ret.obj] = 0 /\ weak_globals[ret.obj] = 0
  /\ \E o \in Objects : live[o] /\ ~no_swap[o]


(* ---------------------------------------------------------------------- *)
\* C35: in every state of the entry lifecycle a resident entry is occupied; resident goes
\* from false to true only by a swap-in on an occupied entry; and no step of a stub
\* access clears resident: the bit goes from true to false only when the owner frees or
\* hands out the slot.
C35_ResidentImpliesOccupied ==
  [][/\ \A e \in Entries : GetResidentBit(e) => GetOccupiedBit(e)
     /\ \A e \in Entries :
          GetBit(bit_flags'[e], RESIDENT_BIT_OFFSET) => GetBit(bit_flags'[e], OCCUPIED_BIT_OFFSET)
     /\ \A e \in Entries :
          (~GetResidentBit(e) /\ GetBit(bit_flags'[e], RESIDENT_BIT_OFFSET)) =>
            /\ GetOccupiedBit(e)
            /\ \E t \in Threads :
                 /\ pc[t] \in {"set_swapin", "pre_swapin"} /\ cur[t] = e
                 /\ pc'[t] \in {"set_forward", "pre_forward"}
     /\ \A e \in Entries :
          (GetResidentBit(e) /\ ~GetBit(bit_flags'[e], RESIDENT_BIT_OFFSET)) =>
            /\ pc' = pc
            /\ ret'.op \in {"FreeEntry", "CreateEntry"} /\ ret'.e = e]_vars

\* a store through a stub has swapped the payload in and returned: the entry is occupied
\* and resident, with the handshake released once
C35_Witness ==
  /\ Idle(HarnessThread)
  /\ stub_flag[HarnessObject] /\ table_entry[HarnessObject] = HarnessEntry
  /\ GetOccupiedBit(HarnessEntry) /\ GetResidentBit(HarnessEntry)
  /\ object_address[HarnessEntry] = HarnessObject
  /\ app_lock_counter[HarnessEntry] = 1


(* ---------------------------------------------------------------------- *)
\* C36: with one caller of CreateEntry/FreeEntry at a time, CreateEntry never returns a
\* slot that is occupied already, every entry it returns lies within Begin()..End() of
\* the table, no two live objects are bound to the same slot, and the number of
\* occupied slots never exceeds the entry count given to CreateTable.
C36_CreateEntryReturnsFreeSlotOfTable ==
  [][/\ \A e \in Entries :
          (~GetOccupiedBit(e) /\ GetBit(bit_flags'[e], OCCUPIED_BIT_OFFSET)) =>
            /\ ret'.op = "CreateEntry" /\ ret'.e = e
     /\ (ret'.op = "CreateEntry" /\ bit_flags' # bit_flags) =>
          /\ ~GetOccupiedBit(ret'.e)
          /\ IsValid(table)
          /\ table.base_address_ <= ret'.e
          /\ ret'.e < table.base_address_ + table.num_entries_
     /\ \A o1 \in Objects, o2 \in Objects :
          (o1 # o2 /\ live'[o1] /\ live'[o2] /\ stub_flag'[o1] /\ stub_flag'[o2]) =>
            table_entry'[o1] # table_entry'[o2]
     /\ Cardinality({e \in Entries : GetBit(bit_flags'[e], OCCUPIED_BIT_OFFSET)})
          <= table'.num_entries_]_vars

\* the table is full: CreateEntry has handed out its last free slot and every slot is
\* bound to a live stub of its own
C36_Witness ==
  /\ ret.op = "CreateEntry"
  /\ table.num_entries_ = NumEntries
  /\ \A e \in TableSlots(table) :
       /\ GetOccupiedBit(e)
       /\ \E o \in Objects : live[o] /\ stub_flag[o] /\ table_entry[o] = e
  /\ Cardinality({table_entry[o] : o \in {x \in Objects : stub_flag[x]}}) = NumEntries


(* ---------------------------------------------------------------------- *)
\* C37: LockFromAppThread and UnlockFromAppThread change only app_lock_counter of their
\* own entry: every step of theirs leaves the occupied, kernel_lock and resident bits,
\* the page count and the object address of that entry unchanged, and every other
\* entry unchanged.
C37_LockUnlockChangeOnlyOwnCounter ==
  [][\A t \in Threads :
       (pc[t] \in {"spin1", "incr1", "spin2", "incr2", "locked"} /\ op[t] = "lock" /\ pc'[t] # pc[t]) =>
         /\ bit_flags' = bit_flags
         /\ num_pages' = num_pages
         /\ object_address' = object_address
         /\ \A e \in Entries \ {cur[t]} : app_lock_counter'[e] = app_lock_counter[e]
         /\ cur'[t] = cur[t]]_vars

\* a thread has locked and unlocked an entry other than the first, which is resident,
\* bound to its object and has a page count, while kernel_lock is set on the first entry
\* and a count is held there
C37_Witness ==
  \E t \in Threads, e \in Entries \ {HarnessEntry} :
    /\ pc[t] = "unlocked" /\ cur[t] = e
    /\ app_lock_counter[e] = 1
    /\ GetOccupiedBit(e) /\ GetResidentBit(e) /\ ~GetKernelLockBit(e)
    /\ num_pages[e] = MaxPages /\ object_address[e] = e
    /\ GetKernelLockBit(HarnessEntry) /\ app_lock_counter[HarnessEntry] > 0


(* ---------------------------------------------------------------------- *)
\* C38: UnlockAllEntries changes only kernel_lock and app_lock_counter: it leaves the
\* occupied and resident bits, the page count and the object address of every entry
\* unchanged, so the sets of occupied and of resident entries are the same before and
\* after the call, and it changes nothing outside the table.
C38_UnlockAllEntriesKeepsBindings ==
  [][ret'.op = "UnlockAllEntries" =>
       /\ \A e \in Entries :
            /\ GetBit(bit_flags'[e], OCCUPIED_BIT_OFFSET) = GetOccupiedBit(e)
            /\ GetBit(bit_flags'[e], RESIDENT_BIT_OFFSET) = GetResidentBit(e)
            /\ num_pages'[e] = num_pages[e]
            /\ object_address'[e] = object_address[e]
       /\ {e \in Entries : GetBit(bit_flags'[e], OCCUPIED_BIT_OFFSET)}
            = {e \in Entries : GetOccupiedBit(e)}
       /\ {e \in Entries : GetBit(bit_flags'[e], RESIDENT_BIT_OFFSET)}
            = {e \in Entries : GetResidentBit(e)}
       /\ UNCHANGED << live, stub_flag, table_entry, mem, payload, table >>]_vars

\* UnlockAllEntries has run on a table in which an entry had kernel_lock set and a
\* count left: every counter and kernel_lock is clear, every entry is still occupied,
\* the resident entries are still resident and bound, the page counts are kept
C38_Witness ==
  /\ ret.op = "UnlockAllEntries" /\ ret.was
  /\ \A e \in Entries :
       /\ GetOccupiedBit(e) /\ ~GetKernelLockBit(e) /\ app_lock_counter[e] = 0
       /\ num_pages[e] = MaxPages
  /\ \E e \in Entries : GetResidentBit(e) /\ object_address[e] = e
  /\ ~GetResidentBit(HarnessEntry)


(* ---------------------------------------------------------------------- *)
\* C39: while a thread is in the second loop of LockFromAppThread, app_lock_counter of
\* the entry includes the first increment of that thread, and finding kernel_lock set
\* there does not roll it back: the thread stays in the loop with the counter as it was,
\* so the kernel actor reads a counter that is not zero for a thread that has not
\* finished acquiring the handshake.
C39_FirstIncrementStandsDuringSecondSpin ==
  [][/\ \A e \in Entries :
          app_lock_counter'[e] >=
            Cardinality({t \in Threads : cur'[t] = e /\ pc'[t] \in {"spin2", "incr2"}})
     /\ \A t \in Threads :
          (/\ pc[t] = "spin2" /\ GetKernelLockBit(cur[t])
           /\ pc'[t] # pc[t] \/ observed'[t] # observed[t] \/ kset'[t] # kset[t]
           /\ bit_flags' = bit_flags) =>
            /\ pc'[t] = "spin2" /\ observed'[t]
            /\ app_lock_counter' = app_lock_counter]_vars

\* the only thread in the handshake found kernel_lock set in its second loop, and the
\* counter the kernel actor reads is 1
C39_Witness ==
  \E t \in Threads :
    /\ pc[t] = "spin2" /\ observed[t] /\ ~kset[t]
    /\ GetKernelLockBit(cur[t])
    /\ app_lock_counter[cur[t]] = 1
    /\ \A u \in Threads \ {t} : Idle(u)

====
